---- MODULE Spec2Model ----
(***************************************************************************)
(* The activity-sync reconciler of the FlickList client                    *)
(* (apis/flicklist_api.py, fl_sync_activities and what it calls).          *)
(*                                                                         *)
(* A pass of fl_sync_activities is a sequence of steps, one per statement  *)
(* that reads or writes the local stores or calls the remote service; the  *)
(* position of a pass is pc[p].  A timestamp string is the number of       *)
(* milliseconds since 2020-01-01T00:00:00Z that it spells, so the fallback *)
(* date 2020-01-01T00:00:01.000Z is 1000.  The caches package and the      *)
(* settings package are not part of                                        *)
(* the sources at hand: their operations are modelled from the design      *)
(* document and are marked so in the map of the model.                     *)
(*                                                                         *)
(* Spec is the reconciler.  CompareSpec applies the timestamp comparator   *)
(* to a pair of timestamp strings, BulkSpec runs one bulk transform with   *)
(* its worker threads, TransportSpec runs one call of call_flicklist       *)
(* against a server; each leaves the variables of the others alone.        *)
(***************************************************************************)
EXTENDS Integers, Sequences, FiniteSets, TLC

\* ------------------------------------------------------------------ bounds
MaxRemoteChanges == 1      \* changes of the server's activity record
MaxChanged == 1            \* category/kind timestamps advanced by one change
MaxTicks == 1              \* advances of the wall clock
MaxPasses == 2             \* passes of fl_sync_activities
MaxSeconds == 2            \* the latest second a compared timestamp spells
MaxRecords == 2            \* records of one bulk transform
MaxRequests == 3           \* HTTP requests of one transport call
MaxAuths == 3              \* calls of fl_authenticate and fl_revoke_authentication
MaxExpiresIn == 3          \* the expires_in of a device code, in polling intervals
MaxPolls == 6              \* polling intervals the clock runs through
MaxItems == 2              \* media items handed to one list or watchlist operation

\* --------------------------------------------------------------- constants
DaySeconds == 86400        \* 24 * 3600
HourSeconds == DaySeconds \div 24   \* the short step of the wall clock

Procs == {"main"}
Main == "main"

SubLeaves ==
  {"recommendations", "favorites",
   "movies_collected_at", "movies_watchlisted_at", "movies_watched_at", "movies_paused_at",
   "shows_watchlisted_at", "shows_dropped_at",
   "episodes_collected_at", "episodes_watched_at", "episodes_paused_at",
   "lists_updated_at", "lists_liked_at"}

Leaves == {"all"} \cup SubLeaves

\* A timestamp string: the milliseconds it spells when it is well formed,
\* Garbage when the format does not match it, Absent when the record has no
\* such key.
Garbage == -1

Absent == -2

\* the timestamp string of second n
TS(n) == n * 1000

fallback_date == 1000

default_activities == [l \in Leaves |-> fallback_date]

\* the lookup without a default: an absent key reads as no instant at all
Get_raw(snapshot, leaf) == snapshot[leaf]

\* dict.get(key, fallback_date) on an activity record
Get(snapshot, leaf) ==
  IF snapshot[leaf] = Absent THEN fallback_date ELSE snapshot[leaf]

\* the conversion keeping the milliseconds
_get_timestamp_ms(t) == IF t >= 0 THEN t ELSE Garbage

\* js2date(..., '%Y-%m-%dT%H:%M:%S.%fZ') followed by _get_timestamp:
\* whole seconds, the fraction is dropped by timetuple(); Garbage stands for
\* the exception raised on a string the format does not match.
_get_timestamp(t) == IF t >= 0 THEN t \div 1000 ELSE Garbage

\* the comparison written with >= : an unchanged instant counts as newer
_compare_ge(l, c) ==
  IF _get_timestamp(l) = Garbage \/ _get_timestamp(c) = Garbage
    THEN TRUE
    ELSE _get_timestamp(l) >= _get_timestamp(c)

\* the comparison failing closed: a string that does not parse is not newer
_compare_closed(l, c) ==
  IF _get_timestamp(l) = Garbage \/ _get_timestamp(c) = Garbage
    THEN FALSE
    ELSE _get_timestamp(l) > _get_timestamp(c)

\* lines 1102-1107
_compare(l, c) ==
  IF _get_timestamp(l) = Garbage \/ _get_timestamp(c) = Garbage
    THEN TRUE
    ELSE _get_timestamp(l) > _get_timestamp(c)

Partitions ==
  {"recommendations", "favorites",
   "collection_movie", "collection_tvshow", "watchlist_movie", "watchlist_tvshow",
   "hidden_dropped",
   "list_my_lists", "contents_my_lists", "list_liked_lists", "contents_liked_lists",
   "calendar"}

DailyPartitions == {"calendar"}

MediaTypes == {"movie", "episode"}

Indexes == {"movie_watched", "tvshow_watched", "movie_progress", "tvshow_progress"}

VARIABLES
  remote,            \* the server's last-activities record
  remoteChanges,
  now,               \* time.time(), seconds
  ticks,
  settings,          \* the settings store
  baseline,          \* the stored activity record
  parts,             \* the cache partitions that hold a payload
  props,             \* media types whose watched-indicator window properties are set
  index,             \* watched / progress indexes: the instants of the remote data whose rows they hold
  passes,
  pc,
  force_update,
  latest,
  cached,
  refresh_movies_progress,
  refresh_shows_progress,
  lists_actions,
  log,               \* the calls a pass has made, in order
  outcome,           \* the value the last pass of the process returned
  pre,               \* the stores as they were when the pass began
  mid,               \* the stores as they were when the pass swapped the baseline
  fetched,           \* how the activity fetch of the pass ended: "no", "data", "none", "raise"
  pulled,            \* what the pull for each index handed back in this pass ("no": not pulled)
  last,              \* summary of the pass before the current one
  cmp_latest,        \* the operands and the result of one comparison
  cmp_cached,
  cmp_result,
  transform,         \* the bulk transform that runs
  batch,             \* the records it was handed (items, progress_items)
  threads,           \* the worker threads started so far
  insert_list,
  tmdb_list,
  joined,            \* how many threads the main thread has joined
  bulk_rows,         \* what set_bulk_* was handed
  bpc,
  produced,          \* what the workers have appended
  call,              \* the arguments of the transport call
  t_pc,
  requests,          \* HTTP requests made by the call
  history,           \* the answers received, and the sleep that followed each
  result,            \* what the call returned
  validation,        \* how the token check of fl_refresh_token ends: "ok", "none", "raise"
  a_pc,              \* where fl_authenticate stands
  a_result,          \* what the last fl_authenticate returned
  a_passes,          \* the passes made when fl_authenticate reached its reconcile
  auths,             \* calls of fl_authenticate and fl_revoke_authentication so far
  issued,            \* the access token the server issued last
  session,           \* "granted" since the last token was stored, "revoked" since the last revoke
  page,              \* _extract_paginated: the response handed in and what was returned
  poll,              \* fl_get_device_token: the locals of the polling loop and the clock
  op,                \* the list/watchlist operation under way: its calls and where it stands
  calendar,          \* build_calendar_days: the offset shown and the entries of the directory
  widgets            \* the random_widgets database and what clean_database returned

env == <<remote, remoteChanges, now, ticks>>
stores == <<settings, baseline, parts, props, index>>
locals == <<pc, force_update, latest, cached, refresh_movies_progress,
            refresh_shows_progress, lists_actions, log, outcome, pre, mid, fetched, pulled>>
ghost == <<passes, last>>
sync == <<env, stores, locals, ghost>>
compare == <<cmp_latest, cmp_cached, cmp_result>>
bulk == <<transform, batch, threads, insert_list, tmdb_list, joined, bulk_rows, bpc, produced>>
transport == <<call, t_pc, requests, history, result>>
auth == <<validation, a_pc, a_result, a_passes, auths, issued, session>>
rest == <<page, poll, op, calendar, widgets>>
aside == <<compare, bulk, transport, auth, rest>>
vars == <<sync, aside>>

\* what a pass remembers of the state it started in
Snap == [settings |-> settings, baseline |-> baseline, parts |-> parts,
         props |-> props, index |-> index, now |-> now, changes |-> remoteChanges]

\* what a pass remembers of the caches when it swaps the baseline
MidSnap == [parts |-> parts, props |-> props, index |-> index]

\* The settings of an installation that was never authorized, or was reset by
\* fl_revoke_authentication (lines 255-258), and of an authorized one
\* (lines 238-244).
RevokedSettings == [token |-> "0", user |-> "empty_setting", watched_indicators |-> "0"]

AuthorizedSettings == [token |-> "token", user |-> "user", watched_indicators |-> "1"]

InitSnap == [settings |-> [token |-> "0", user |-> "empty_setting",
                           watched_indicators |-> "0", next_daily_clear |-> 0], baseline |-> default_activities,
             parts |-> {}, props |-> {}, index |-> [i \in Indexes |-> {}], now |-> 0,
             changes |-> 0]

InitMid == [parts |-> {}, props |-> {}, index |-> [i \in Indexes |-> {}]]

NoPass == [force |-> FALSE, outcome |-> "none", fetched |-> "no", changes |-> 0,
           now |-> 0, due |-> FALSE]

\* the rows an index holds from before: data of the instant 0
StaleRows == {0}

NotPulled == [i \in Indexes |-> "no"]

\* no comparison under way
CompareIdle ==
  /\ cmp_latest = fallback_date
  /\ cmp_cached = fallback_date
  /\ cmp_result = "unset"

\* no bulk transform under way
BulkIdle ==
  /\ transform = "none"
  /\ batch = <<>>
  /\ threads = <<>>
  /\ insert_list = <<>>
  /\ tmdb_list = <<>>
  /\ joined = 0
  /\ bulk_rows = <<>>
  /\ bpc = "idle"
  /\ produced = {}

NoCall == [method |-> "none", data |-> "none", is_delete |-> FALSE, pagination |-> FALSE]

NoResult == [value |-> "unset", page |-> "-"]

\* no transport call under way
TransportIdle ==
  /\ call = NoCall
  /\ t_pc = "idle"
  /\ requests = 0
  /\ history = <<>>
  /\ result = NoResult

\* no authentication under way, the token check answered
AuthIdle ==
  /\ validation = "ok"
  /\ a_pc = "idle"
  /\ a_result = "unset"
  /\ a_passes = 0
  /\ auths = 0
  /\ issued = "-"
  /\ session = "initial"

\* nothing else under way
RestIdle ==
  /\ page = <<>>
  /\ poll = <<>>
  /\ op = <<>>
  /\ calendar = <<>>
  /\ widgets = <<>>

\* The reconciler at rest for the processes P: a warm cache, the given account
\* settings and daily gate, the server's record r and the stored baseline b.
SyncStartWith(P, s, g, r, b) ==
  /\ remote = r
  /\ remoteChanges = 0
  /\ now = 0
  /\ ticks = 0
  /\ settings = [token |-> s.token, user |-> s.user,
                 watched_indicators |-> s.watched_indicators, next_daily_clear |-> g]
  /\ baseline = b
  /\ parts = Partitions
  /\ props = MediaTypes
  /\ index = [i \in Indexes |-> StaleRows]
  /\ passes = 0
  /\ pc = [p \in P |-> "idle"]
  /\ force_update = [p \in P |-> FALSE]
  /\ latest = [p \in P |-> default_activities]
  /\ cached = [p \in P |-> default_activities]
  /\ refresh_movies_progress = [p \in P |-> FALSE]
  /\ refresh_shows_progress = [p \in P |-> FALSE]
  /\ lists_actions = [p \in P |-> <<>>]
  /\ log = [p \in P |-> <<>>]
  /\ outcome = [p \in P |-> "none"]
  /\ pre = [p \in P |-> InitSnap]
  /\ mid = [p \in P |-> InitMid]
  /\ fetched = [p \in P |-> "no"]
  /\ pulled = [p \in P |-> NotPulled]
  /\ last = NoPass

\* The reconciler at rest: a warm cache, the given account settings and daily gate.
SyncStart(s, g) == SyncStartWith(Procs, s, g, default_activities, default_activities)

\* no pass under way and none to come: the reconciler's variables hold nothing
SyncIdle ==
  /\ remote = <<>>
  /\ remoteChanges = 0
  /\ now = 0
  /\ ticks = 0
  /\ settings = <<>>
  /\ baseline = <<>>
  /\ parts = {}
  /\ props = {}
  /\ index = <<>>
  /\ passes = 0
  /\ pc = <<>>
  /\ force_update = <<>>
  /\ latest = <<>>
  /\ cached = <<>>
  /\ refresh_movies_progress = <<>>
  /\ refresh_shows_progress = <<>>
  /\ lists_actions = <<>>
  /\ log = <<>>
  /\ outcome = <<>>
  /\ pre = <<>>
  /\ mid = <<>>
  /\ fetched = <<>>
  /\ pulled = <<>>
  /\ last = <<>>

\* An installation with a warm cache: authorized or not, the daily sweep
\* never run (gate 0) or due in an hour.
Init ==
  /\ \E s \in {RevokedSettings, AuthorizedSettings}, g \in {0, HourSeconds} : SyncStart(s, g)
  /\ CompareIdle
  /\ BulkIdle
  /\ TransportIdle
  /\ AuthIdle
  /\ RestIdle

\* ----------------------------------------------------------- collaborators

\* settings.flicklist_user_active()
flicklist_user_active == settings.user \notin {"empty_setting", ""}

\* flicklist_cache.clear_all_fl_cache_data(silent=True, refresh=False)
clear_all_fl_cache_data(ps) == {}

\* flicklist_cache.clear_daily_cache()
clear_daily_cache(ps) == ps \ DailyPartitions

\* flicklist_cache.clear_fl_list_data(item), clear_fl_list_contents_data(item)
clear_fl_list_data(ps, item) == ps \ {"list_" \o item}

clear_fl_list_contents_data(ps, item) == ps \ {"contents_" \o item}

\* flicklist_cache.reset_activity(latest): hands back the stored record and
\* stores `latest` in its place, as one replace.
reset_activity_returns(stored) == stored

reset_activity_stores(stored, new) == new

\* ------------------------------------------------- fl_sync_activities, steps

AllIdle == \A q \in Procs : pc[q] = "idle"

Newer(p, leaf) == _compare(Get(latest[p], leaf), Get(cached[p], leaf))

\* the gate written with > : a sweep due exactly now is skipped
_check_daily_expiry_strict == now > settings.next_daily_clear

\* _check_daily_expiry()
_check_daily_expiry == now >= settings.next_daily_clear

\* the gate left at the present instant
NextDailyClear_now == now

\* str(int(time.time()) + (24 * 3600))
NextDailyClear == now + DaySeconds

Goto(p, label) == pc' = [pc EXCEPT ![p] = label]

Logged(p, entries) == log' = [log EXCEPT ![p] = @ \o entries]

\* return from fl_sync_activities
Return(p, value, finalLog) ==
  /\ pc' = [pc EXCEPT ![p] = "idle"]
  /\ outcome' = [outcome EXCEPT ![p] = value]
  /\ log' = [log EXCEPT ![p] = finalLog]

BeginPass(p, f) ==
  /\ passes < MaxPasses
  /\ passes' = passes + 1
  /\ last' = IF passes = 0 THEN NoPass
             ELSE [force |-> force_update[p], outcome |-> outcome[p], fetched |-> fetched[p],
                   changes |-> pre[p].changes, now |-> pre[p].now,
                   due |-> pre[p].now >= pre[p].settings.next_daily_clear]
  /\ pc' = [pc EXCEPT ![p] = "preclear"]
  /\ force_update' = [force_update EXCEPT ![p] = f]
  /\ latest' = [latest EXCEPT ![p] = default_activities]
  /\ cached' = [cached EXCEPT ![p] = default_activities]
  /\ refresh_movies_progress' = [refresh_movies_progress EXCEPT ![p] = FALSE]
  /\ refresh_shows_progress' = [refresh_shows_progress EXCEPT ![p] = FALSE]
  /\ lists_actions' = [lists_actions EXCEPT ![p] = <<>>]
  /\ log' = [log EXCEPT ![p] = <<"fl_refresh_token">>]
  /\ fetched' = [fetched EXCEPT ![p] = "no"]
  /\ pulled' = [pulled EXCEPT ![p] = NotPulled]
  /\ mid' = [mid EXCEPT ![p] = InitMid]
  /\ UNCHANGED outcome

RefreshResults == {"ok", "none", "raise"}

\* fl_refresh_token with a failed check taken as a revoke
fl_refresh_token_revoking(s, v) ==
  IF s.token \in {"0", "empty_setting", ""} \/ v = "ok" THEN s ELSE [s EXCEPT !.token = "0"]

\* fl_refresh_token with a failed check forgetting the user
fl_refresh_token_forgetting(s, v) ==
  IF s.token \in {"0", "empty_setting", ""} \/ v = "ok" THEN s ELSE [s EXCEPT !.user = "empty_setting"]

\* fl_refresh_token, lines 218-228: the settings after it. No token: return
\* at once; else GET /auth/me, whose answer v ("ok": a body, "none": None,
\* "raise": an exception, swallowed by the except of line 227) is only logged.
fl_refresh_token(s, v) ==
  IF s.token \in {"0", "empty_setting", ""} THEN s
  ELSE IF v = "ok" THEN s
  ELSE s

\* lines 1095-1110: the call, and fl_refresh_token, which changes nothing
Start(p, f) ==
  /\ pc[p] = "idle"
  /\ BeginPass(p, f)
  /\ pre' = [pre EXCEPT ![p] = Snap]
  /\ settings' = fl_refresh_token(settings, validation)
  /\ UNCHANGED <<aside, env, baseline, parts, props, index>>

\* the daily sweep tested before force_update
PreClear_daily_first(p) ==
  /\ pc[p] = "preclear"
  /\ IF _check_daily_expiry
       THEN /\ parts' = clear_daily_cache(parts)
            /\ settings' = [settings EXCEPT !.next_daily_clear = NextDailyClear]
            /\ Logged(p, <<"clear_daily_cache">>)
       ELSE IF force_update[p]
         THEN /\ parts' = clear_all_fl_cache_data(parts)
              /\ Logged(p, <<"clear_all_fl_cache_data">>)
              /\ UNCHANGED settings
         ELSE UNCHANGED <<parts, settings, log>>
  /\ Goto(p, "account")
  /\ UNCHANGED <<aside, env, baseline, props, index, force_update, latest, cached,
                 refresh_movies_progress, refresh_shows_progress, lists_actions,
                 outcome, pre, mid, fetched, pulled, ghost>>

\* lines 1111-1115
PreClear(p) ==
  /\ pc[p] = "preclear"
  /\ IF force_update[p]
       THEN /\ parts' = clear_all_fl_cache_data(parts)
            /\ Logged(p, <<"clear_all_fl_cache_data">>)
            /\ UNCHANGED settings
       ELSE IF _check_daily_expiry
         THEN /\ parts' = clear_daily_cache(parts)
              /\ settings' = [settings EXCEPT !.next_daily_clear = NextDailyClear]
              /\ Logged(p, <<"clear_daily_cache">>)
         ELSE UNCHANGED <<parts, settings, log>>
  /\ Goto(p, "account")
  /\ UNCHANGED <<aside, env, baseline, props, index, force_update, latest, cached,
                 refresh_movies_progress, refresh_shows_progress, lists_actions,
                 outcome, pre, mid, fetched, pulled, ghost>>

\* the account check without its force_update conjunct
NoAccount_unforced(p) == ~flicklist_user_active

\* the account check with the user test inverted
NoAccount_inverted(p) == flicklist_user_active /\ ~force_update[p]

\* line 1116
NoAccount(p) == ~flicklist_user_active /\ ~force_update[p]

\* lines 1116-1117
AccountCheck(p) ==
  /\ pc[p] = "account"
  /\ IF NoAccount(p)
       THEN /\ Return(p, "no account", log[p])
            /\ UNCHANGED ghost
       ELSE /\ Goto(p, "fetch")
            /\ UNCHANGED <<log, outcome, ghost>>
  /\ UNCHANGED <<aside, env, stores, force_update, latest, cached, refresh_movies_progress,
                 refresh_shows_progress, lists_actions, pre, mid, fetched, pulled>>

FetchResults == {"data", "none", "raise"}

\* fl_get_activity(), lines 1088-1093: the body of the answer, or the default
\* record when the transport hands back nothing
fl_get_activity(r) ==
  IF r = "data" /\ (\E l \in Leaves : remote[l] # Absent) THEN remote ELSE default_activities

\* lines 1118-1121
Fetch(p, r) ==
  /\ pc[p] = "fetch"
  /\ fetched' = [fetched EXCEPT ![p] = r]
  /\ IF r = "raise"
       THEN /\ Return(p, "failed", log[p] \o <<"fl_get_activity">>)
            /\ UNCHANGED <<latest, ghost>>
       ELSE /\ latest' = [latest EXCEPT ![p] = fl_get_activity(r)]
            /\ Logged(p, <<"fl_get_activity">>)
            /\ Goto(p, "reset")
            /\ UNCHANGED <<outcome, passes, last>>
  /\ UNCHANGED <<aside, env, stores, force_update, cached, refresh_movies_progress,
                 refresh_shows_progress, lists_actions, pre, mid, pulled>>

\* the baseline read back after the fetched record was stored
ResetActivity_after(p) ==
  /\ pc[p] = "reset"
  /\ cached' = [cached EXCEPT ![p] = reset_activity_returns(reset_activity_stores(baseline, latest[p]))]
  /\ baseline' = reset_activity_stores(baseline, latest[p])
  /\ Logged(p, <<"reset_activity">>)
  /\ mid' = [mid EXCEPT ![p] = MidSnap]
  /\ Goto(p, "gate")
  /\ UNCHANGED <<aside, env, settings, parts, props, index, force_update, latest,
                 refresh_movies_progress, refresh_shows_progress, lists_actions,
                 outcome, pre, fetched, pulled, ghost>>

\* line 1122
ResetActivity(p) ==
  /\ pc[p] = "reset"
  /\ cached' = [cached EXCEPT ![p] = reset_activity_returns(baseline)]
  /\ baseline' = reset_activity_stores(baseline, latest[p])
  /\ Logged(p, <<"reset_activity">>)
  /\ mid' = [mid EXCEPT ![p] = MidSnap]
  /\ Goto(p, "gate")
  /\ UNCHANGED <<aside, env, settings, parts, props, index, force_update, latest,
                 refresh_movies_progress, refresh_shows_progress, lists_actions,
                 outcome, pre, fetched, pulled, ghost>>

\* the watermark comparison written with >=
WatermarkNewer_ge(p) == _compare_ge(Get(latest[p], "all"), Get(cached[p], "all"))

\* line 1124
WatermarkNewer(p) == Newer(p, "all")

\* lines 1123-1125
Gate(p) ==
  /\ pc[p] = "gate"
  /\ IF ~WatermarkNewer(p)
       THEN /\ Return(p, "not needed", log[p])
            /\ UNCHANGED ghost
       ELSE /\ Goto(p, "recommendations")
            /\ UNCHANGED <<log, outcome, ghost>>
  /\ UNCHANGED <<aside, env, stores, force_update, latest, cached, refresh_movies_progress,
                 refresh_shows_progress, lists_actions, pre, mid, fetched, pulled>>

PassFrame == <<force_update, latest, cached, pre, mid, fetched, outcome, ghost>>

\* One comparison whose action drops cache partitions and window properties.
CmpClear(p, here, leaf, ps, ms, entries, next) ==
  /\ pc[p] = here
  /\ IF Newer(p, leaf)
       THEN /\ parts' = parts \ ps
            /\ props' = props \ ms
            /\ Logged(p, entries)
       ELSE UNCHANGED <<parts, props, log>>
  /\ Goto(p, next)
  /\ UNCHANGED <<aside, env, settings, baseline, index, refresh_movies_progress,
                 refresh_shows_progress, lists_actions, pulled, PassFrame>>

\* lines 1135-1136
Recommendations(p) ==
  CmpClear(p, "recommendations", "recommendations", {"recommendations"}, {},
           <<"clear_fl_recommendations">>, "favorites")

\* lines 1137-1138
Favorites(p) ==
  CmpClear(p, "favorites", "favorites", {"favorites"}, {},
           <<"clear_fl_favorites">>, "movies_collected_at")

\* lines 1139-1140
MoviesCollected(p) ==
  CmpClear(p, "movies_collected_at", "movies_collected_at", {"collection_movie"}, {},
           <<"clear_fl_collection_movie">>, "episodes_collected_at")

\* lines 1141-1142
EpisodesCollected(p) ==
  CmpClear(p, "episodes_collected_at", "episodes_collected_at", {"collection_tvshow"}, {},
           <<"clear_fl_collection_tvshow">>, "movies_watchlisted_at")

\* lines 1143-1144
MoviesWatchlisted(p) ==
  CmpClear(p, "movies_watchlisted_at", "movies_watchlisted_at", {"watchlist_movie"}, {},
           <<"clear_fl_watchlist_movie">>, "shows_watchlisted_at")

\* the shows watchlist comparison reading the movies instant
ShowsWatchlisted_movies(p) ==
  CmpClear(p, "shows_watchlisted_at", "movies_watchlisted_at", {"watchlist_tvshow"}, {},
           <<"clear_fl_watchlist_tvshow">>, "shows_dropped_at")

\* lines 1145-1146
ShowsWatchlisted(p) ==
  CmpClear(p, "shows_watchlisted_at", "shows_watchlisted_at", {"watchlist_tvshow"}, {},
           <<"clear_fl_watchlist_tvshow">>, "shows_dropped_at")

\* lines 1147-1149
ShowsDropped(p) ==
  CmpClear(p, "shows_dropped_at", "shows_dropped_at", {"hidden_dropped"}, {"episode"},
           <<"clear_properties_episode", "clear_fl_hidden_data_dropped">>,
           "movies_watched_at")

\* What a pull can hand back: a body with records, a page without records, a
\* body that is not JSON (call_flicklist then hands back resp.text, line
\* 134), or nothing (None, lines 116-125).
PullResults == {"data", "empty", "text", "none"}

\* The rows an index is rebuilt from, named by the instant of the remote data.
RemoteData(leaf) == {remote[leaf]}

\* fl_indicators_movies / fl_indicators_tv, lines 840-879: nothing is replaced
\* when the history pull hands back nothing (line 852); a page without
\* records replaces the index by no rows, and so does a text body, each
\* character of which is handed to a worker that dies on item.get.
fl_indicators(ix, i, leaf, r) ==
  CASE r = "data" -> [ix EXCEPT ![i] = RemoteData(leaf)]
    [] r \in {"empty", "text"} -> [ix EXCEPT ![i] = {}]
    [] OTHER -> ix

fl_indicators_log(name, r) ==
  IF r = "none" THEN <<"pull_history_" \o name>>
                ELSE <<"pull_history_" \o name, "set_bulk_" \o name>>

\* One comparison whose action clears window properties and rebuilds a watched index.
CmpWatched(p, here, leaf, m, i, r, next) ==
  /\ pc[p] = here
  /\ IF Newer(p, leaf)
       THEN /\ props' = props \ {m}
            /\ index' = fl_indicators(index, i, leaf, r)
            /\ pulled' = [pulled EXCEPT ![p][i] = r]
            /\ Logged(p, <<"clear_properties_" \o m>> \o fl_indicators_log(i, r))
       ELSE UNCHANGED <<props, index, pulled, log>>
  /\ Goto(p, next)
  /\ UNCHANGED <<aside, env, settings, baseline, parts, refresh_movies_progress,
                 refresh_shows_progress, lists_actions, PassFrame>>

\* the movie branch calling the episode refresh
MoviesWatched_tv(p, r) ==
  CmpWatched(p, "movies_watched_at", "movies_watched_at", "episode", "tvshow_watched", r,
             "episodes_watched_at")

\* lines 1150-1152
MoviesWatched(p, r) ==
  CmpWatched(p, "movies_watched_at", "movies_watched_at", "movie", "movie_watched", r,
             "episodes_watched_at")

\* lines 1153-1155
EpisodesWatched(p, r) ==
  CmpWatched(p, "episodes_watched_at", "episodes_watched_at", "episode", "tvshow_watched", r,
             "flags")

\* the two list comparisons written with >=
ListsActions_ge(p) ==
  (IF _compare_ge(Get(latest[p], "lists_updated_at"), Get(cached[p], "lists_updated_at"))
     THEN <<"my_lists">> ELSE <<>>)
    \o (IF _compare_ge(Get(latest[p], "lists_liked_at"), Get(cached[p], "lists_liked_at"))
          THEN <<"liked_lists">> ELSE <<>>)

\* the two list actions with their names exchanged
ListsActions_swapped(p) ==
  (IF Newer(p, "lists_updated_at") THEN <<"liked_lists">> ELSE <<>>)
    \o (IF Newer(p, "lists_liked_at") THEN <<"my_lists">> ELSE <<>>)

\* lines 1160-1163
ListsActions(p) ==
  (IF Newer(p, "lists_updated_at") THEN <<"my_lists">> ELSE <<>>)
    \o (IF Newer(p, "lists_liked_at") THEN <<"liked_lists">> ELSE <<>>)

\* the two progress flags read from each other's instant
Flags_crossed(p) ==
  /\ pc[p] = "flags"
  /\ refresh_movies_progress' =
       [refresh_movies_progress EXCEPT ![p] = Newer(p, "episodes_paused_at")]
  /\ refresh_shows_progress' =
       [refresh_shows_progress EXCEPT ![p] = Newer(p, "movies_paused_at")]
  /\ lists_actions' = [lists_actions EXCEPT ![p] = ListsActions(p)]
  /\ Goto(p, "progress")
  /\ UNCHANGED <<aside, env, stores, log, pulled, PassFrame>>

\* lines 1156-1163: the four comparisons that only set locals
Flags(p) ==
  /\ pc[p] = "flags"
  /\ refresh_movies_progress' =
       [refresh_movies_progress EXCEPT ![p] = Newer(p, "movies_paused_at")]
  /\ refresh_shows_progress' =
       [refresh_shows_progress EXCEPT ![p] = Newer(p, "episodes_paused_at")]
  /\ lists_actions' = [lists_actions EXCEPT ![p] = ListsActions(p)]
  /\ Goto(p, "progress")
  /\ UNCHANGED <<aside, env, stores, log, pulled, PassFrame>>

\* fl_progress_movies / fl_progress_tv, lines 914-961: with no progress items
\* of the kind (lines 924-926, 953-955; fl_playback_progress hands back []
\* when the pull hands back nothing, lines 885-886) nothing is replaced.
fl_progress(ix, i, leaf, r) ==
  IF r = "data" THEN [ix EXCEPT ![i] = RemoteData(leaf)] ELSE ix

fl_progress_log(m, i, r) ==
  <<"clear_properties_" \o m, "fl_" \o i>>
    \o (IF r = "data" THEN <<"set_bulk_" \o i>> ELSE <<>>)

\* fl_playback_progress(), line 887: a text body is neither a list nor has it
\* a get(), so the call raises.
fl_playback_progress_raises(r) == r = "text"

\* lines 1164-1171; an exception of fl_playback_progress leaves
\* fl_sync_activities, which has no handler around line 1165
Progress(p, r) ==
  /\ pc[p] = "progress"
  /\ IF refresh_movies_progress[p] \/ refresh_shows_progress[p]
       THEN /\ pulled' = [pulled EXCEPT
                           ![p]["movie_progress"] =
                              IF refresh_movies_progress[p] THEN r ELSE @,
                           ![p]["tvshow_progress"] =
                              IF refresh_shows_progress[p] THEN r ELSE @]
            /\ IF fl_playback_progress_raises(r)
                 THEN /\ Return(p, "raised", log[p] \o <<"fl_playback_progress">>)
                      /\ UNCHANGED <<props, index>>
                 ELSE LET afterMovies ==
                            IF refresh_movies_progress[p]
                              THEN fl_progress(index, "movie_progress", "movies_paused_at", r)
                              ELSE index
                          afterShows ==
                            IF refresh_shows_progress[p]
                              THEN fl_progress(afterMovies, "tvshow_progress",
                                               "episodes_paused_at", r)
                              ELSE afterMovies
                      IN /\ index' = afterShows
                         /\ props' = (props \ (IF refresh_movies_progress[p]
                                                  THEN {"movie"} ELSE {}))
                                         \ (IF refresh_shows_progress[p]
                                               THEN {"episode"} ELSE {})
                         /\ Logged(p, <<"fl_playback_progress">>
                              \o (IF refresh_movies_progress[p]
                                    THEN fl_progress_log("movie", "movie_progress", r)
                                    ELSE <<>>)
                              \o (IF refresh_shows_progress[p]
                                    THEN fl_progress_log("episode", "tvshow_progress", r)
                                    ELSE <<>>))
                         /\ Goto(p, "lists")
                         /\ UNCHANGED outcome
       ELSE /\ Goto(p, "lists")
            /\ UNCHANGED <<props, index, log, pulled, outcome>>
  /\ UNCHANGED <<aside, env, settings, baseline, parts, refresh_movies_progress,
                 refresh_shows_progress, lists_actions, force_update, latest, cached,
                 pre, mid, fetched, ghost>>

RECURSIVE ClearLists(_, _)
ClearLists(ps, items) ==
  IF items = <<>> THEN ps
  ELSE ClearLists(clear_fl_list_contents_data(clear_fl_list_data(ps, Head(items)), Head(items)),
                  Tail(items))

RECURSIVE ClearListsLog(_)
ClearListsLog(items) ==
  IF items = <<>> THEN <<>>
  ELSE <<"clear_fl_list_data_" \o Head(items), "clear_fl_list_contents_data_" \o Head(items)>>
         \o ClearListsLog(Tail(items))

\* lines 1172-1176
Lists(p) ==
  /\ pc[p] = "lists"
  /\ parts' = ClearLists(parts, lists_actions[p])
  /\ Return(p, "success", log[p] \o ClearListsLog(lists_actions[p]))
  /\ UNCHANGED <<aside, env, settings, baseline, props, index, force_update, latest, cached,
                 refresh_movies_progress, refresh_shows_progress, lists_actions, pre,
                 mid, fetched, pulled, ghost>>

\* ------------------------------------------------------------- environment

\* The instants one change moves: a few of them, or all of them.
ChangeSets == {S \in SUBSET SubLeaves : Cardinality(S) <= MaxChanged} \cup {SubLeaves}

\* The server records activity: some category/kind instants, and as a rule the
\* `all` watermark, move to the current server instant.
RemoteChange(S, bumpAll) ==
  /\ AllIdle
  /\ remoteChanges < MaxRemoteChanges
  /\ S # {} \/ bumpAll
  /\ remoteChanges' = remoteChanges + 1
  /\ remote' = [l \in Leaves |->
                  IF l \in S \/ (l = "all" /\ bumpAll)
                    THEN TS(remoteChanges + 2) ELSE remote[l]]
  /\ UNCHANGED <<aside, now, ticks, stores, locals, ghost>>

TickSteps == {HourSeconds, DaySeconds}

Tick(d) ==
  /\ AllIdle
  /\ ticks < MaxTicks
  /\ ticks' = ticks + 1
  /\ now' = now + d
  /\ UNCHANGED <<aside, remote, remoteChanges, stores, locals, ghost>>

\* the steps of a pass that has begun
Steps(p) ==
  \/ PreClear(p)
  \/ AccountCheck(p)
  \/ \E r \in FetchResults : Fetch(p, r)
  \/ ResetActivity(p)
  \/ Gate(p)
  \/ Recommendations(p)
  \/ Favorites(p)
  \/ MoviesCollected(p)
  \/ EpisodesCollected(p)
  \/ MoviesWatchlisted(p)
  \/ ShowsWatchlisted(p)
  \/ ShowsDropped(p)
  \/ \E r \in PullResults : MoviesWatched(p, r)
  \/ \E r \in PullResults : EpisodesWatched(p, r)
  \/ Flags(p)
  \/ \E r \in PullResults : Progress(p, r)
  \/ Lists(p)

Pass(p) ==
  \/ \E f \in BOOLEAN : Start(p, f)
  \/ Steps(p)

Next ==
  \/ Pass(Main)
  \/ \E S \in ChangeSets, bumpAll \in BOOLEAN : RemoteChange(S, bumpAll)
  \/ \E d \in TickSteps : Tick(d)

Spec == Init /\ [][Next]_vars

\* ----------------------------------------------------------------- claims

\* A pass of the main caller has returned.
Done == pc[Main] = "idle" /\ passes > 0

Called(e) == \E i \in 1..Len(log[Main]) : log[Main][i] = e

Count(e) == Cardinality({i \in 1..Len(log[Main]) : log[Main][i] = e})

\* The calls the pass made after it swapped the baseline.
Fired ==
  IF Called("reset_activity")
    THEN LET k == CHOOSE i \in 1..Len(log[Main]) : log[Main][i] = "reset_activity"
         IN SubSeq(log[Main], k + 1, Len(log[Main]))
    ELSE <<>>

Forced == force_update[Main]

WasDue == pre[Main].now >= pre[Main].settings.next_daily_clear

WasActive == pre[Main].settings.user \notin {"empty_setting", ""}

\* The fetched record is strictly later than the old baseline at `leaf`.
Later(leaf) == latest[Main][leaf] > cached[Main][leaf]

Same(leaf) == latest[Main][leaf] = cached[Main][leaf]

\* C1: a pass whose fetched `all` equals the baseline's returns "not needed"
\* and leaves partitions, window properties, indexes and the stored baseline
\* as they were before the pass (stated for the passes that make no forced
\* or daily sweep, which the claim does not mean to cover).
C1_EqualWatermarkLeavesAllUntouched ==
  (Done /\ ~Forced /\ ~WasDue /\ fetched[Main] = "data" /\ Same("all"))
    => /\ outcome[Main] = "not needed"
       /\ parts = pre[Main].parts
       /\ props = pre[Main].props
       /\ index = pre[Main].index
       /\ baseline = pre[Main].baseline

\* C2: two non-forced passes in succession (no clock tick, no remote change
\* between them), the first returning "success": the second returns
\* "not needed", makes no call after the baseline swap and changes no
\* partition, property or index.
C2_Succession ==
  /\ Done
  /\ passes >= 2
  /\ ~last.force
  /\ last.outcome = "success"
  /\ ~Forced
  /\ fetched[Main] = "data"
  /\ pre[Main].changes = last.changes
  /\ pre[Main].now = last.now

C2_SecondPassNotNeeded ==
  C2_Succession
    => /\ outcome[Main] = "not needed"
       /\ log[Main] = <<"fl_refresh_token", "fl_get_activity", "reset_activity">>
       /\ parts = pre[Main].parts
       /\ props = pre[Main].props
       /\ index = pre[Main].index

C2_Witness == C2_Succession /\ outcome[Main] = "not needed"

\* C3: a pass whose activity fetch fails (the transport hands back nothing, or
\* raises) returns "failed" and leaves the baseline as it was, so that the
\* baseline is only ever a record the server delivered.
C3_FetchFailureKeepsBaseline ==
  (Done /\ fetched[Main] \in {"none", "raise"})
    => (outcome[Main] = "failed" /\ baseline = pre[Main].baseline)

\* C4: a forced pass always clears every partition and always fetches, with or
\* without an active account, and leaves the fetched record stored as the
\* baseline whatever the watermark comparison says.
C4_ForcedPass ==
  (Done /\ Forced)
    => /\ Called("clear_all_fl_cache_data")
       /\ parts = {}
       /\ Called("fl_get_activity")
       /\ (fetched[Main] = "data" /\ remoteChanges = pre[Main].changes)
            => (latest[Main] = remote /\ baseline = remote)

C4_Witness ==
  /\ Done /\ Forced /\ ~WasActive
  /\ fetched[Main] = "data"
  /\ outcome[Main] = "not needed"
  /\ pre[Main].parts # {}
  /\ baseline # pre[Main].baseline

\* C5: a non-forced pass that finds the gate due (next_daily_clear <= now)
\* sweeps the daily partitions exactly once and sets the gate to now + 86400,
\* whatever it returns; a further non-forced pass less than 24 hours later
\* sweeps nothing and leaves the gate alone.
C5_FurtherPass ==
  /\ Done
  /\ passes >= 2
  /\ ~last.force /\ last.due
  /\ ~Forced
  /\ pre[Main].now - last.now < DaySeconds

C5_DailyGate ==
  /\ (Done /\ ~Forced /\ WasDue)
       => /\ Count("clear_daily_cache") = 1
          /\ parts \cap DailyPartitions = {}
          /\ settings.next_daily_clear = pre[Main].now + DaySeconds
  /\ C5_FurtherPass
       => /\ ~Called("clear_daily_cache")
          /\ settings.next_daily_clear = pre[Main].settings.next_daily_clear
          /\ settings.next_daily_clear = last.now + DaySeconds

C5_Witness ==
  /\ C5_FurtherPass
  /\ last.outcome = "not needed"
  /\ pre[Main].now > last.now

\* C6 as stated: a non-forced pass without an active account returns
\* "no account", fetches nothing and changes no state at all.
C6_NoAccountChangesNothing ==
  (Done /\ ~Forced /\ ~WasActive)
    => /\ outcome[Main] = "no account"
       /\ ~Called("fl_get_activity")
       /\ settings = pre[Main].settings
       /\ parts = pre[Main].parts
       /\ props = pre[Main].props
       /\ index = pre[Main].index
       /\ baseline = pre[Main].baseline

\* C6, amended: a non-forced pass without an active account returns
\* "no account", fetches nothing and leaves baseline, indexes and window
\* properties alone; partitions and settings change only by the daily sweep
\* when the gate was due (daily partitions dropped, gate set to now + 86400).
C6_NoAccountOnlyDailySweep ==
  (Done /\ ~Forced /\ ~WasActive)
    => /\ outcome[Main] = "no account"
       /\ ~Called("fl_get_activity")
       /\ props = pre[Main].props
       /\ index = pre[Main].index
       /\ baseline = pre[Main].baseline
       /\ IF WasDue
            THEN /\ parts = pre[Main].parts \ DailyPartitions
                 /\ settings = [pre[Main].settings EXCEPT
                                  !.next_daily_clear = pre[Main].now + DaySeconds]
            ELSE /\ parts = pre[Main].parts
                 /\ settings = pre[Main].settings

C6_Witness ==
  /\ Done /\ ~Forced /\ ~WasActive /\ WasDue
  /\ outcome[Main] = "no account"
  /\ parts # pre[Main].parts

\* C7: while a pass runs the stored baseline is still the one it started
\* with: the fetched record is stored only at the end, after the actions.
C7_BaselineHeldUntilEnd ==
  pc[Main] # "idle" => baseline = pre[Main].baseline

OnlyLater(leaf) ==
  /\ Done /\ fetched[Main] = "data"
  /\ Later("all")
  /\ Later(leaf)
  /\ \A l \in SubLeaves \ {leaf} : Same(l)

C9_ListsOnly ==
  /\ OnlyLater("lists_updated_at")
       => /\ outcome[Main] = "success"
          /\ parts = mid[Main].parts \ {"list_my_lists", "contents_my_lists"}
          /\ props = mid[Main].props
          /\ index = mid[Main].index
          /\ Fired = <<"clear_fl_list_data_my_lists",
                       "clear_fl_list_contents_data_my_lists">>
  /\ OnlyLater("lists_liked_at")
       => /\ outcome[Main] = "success"
          /\ parts = mid[Main].parts \ {"list_liked_lists", "contents_liked_lists"}
          /\ props = mid[Main].props
          /\ index = mid[Main].index
          /\ Fired = <<"clear_fl_list_data_liked_lists",
                       "clear_fl_list_contents_data_liked_lists">>

C9_Witness ==
  /\ OnlyLater("lists_updated_at")
  /\ {"list_my_lists", "contents_my_lists", "list_liked_lists"} \subseteq mid[Main].parts
  /\ {"collection_movie", "watchlist_movie", "list_liked_lists"} \subseteq parts

\* The call by which each comparison's action is known in the log.
ActionCall ==
  [l \in SubLeaves |->
     CASE l = "recommendations" -> "clear_fl_recommendations"
       [] l = "favorites" -> "clear_fl_favorites"
       [] l = "movies_collected_at" -> "clear_fl_collection_movie"
       [] l = "episodes_collected_at" -> "clear_fl_collection_tvshow"
       [] l = "movies_watchlisted_at" -> "clear_fl_watchlist_movie"
       [] l = "shows_watchlisted_at" -> "clear_fl_watchlist_tvshow"
       [] l = "shows_dropped_at" -> "clear_fl_hidden_data_dropped"
       [] l = "movies_watched_at" -> "pull_history_movie_watched"
       [] l = "episodes_watched_at" -> "pull_history_tvshow_watched"
       [] l = "movies_paused_at" -> "fl_movie_progress"
       [] l = "episodes_paused_at" -> "fl_tvshow_progress"
       [] l = "lists_updated_at" -> "clear_fl_list_data_my_lists"
       [] l = "lists_liked_at" -> "clear_fl_list_data_liked_lists"]

\* The partitions each comparison's action drops.
ActionParts ==
  [l \in SubLeaves |->
     CASE l = "recommendations" -> {"recommendations"}
       [] l = "favorites" -> {"favorites"}
       [] l = "movies_collected_at" -> {"collection_movie"}
       [] l = "episodes_collected_at" -> {"collection_tvshow"}
       [] l = "movies_watchlisted_at" -> {"watchlist_movie"}
       [] l = "shows_watchlisted_at" -> {"watchlist_tvshow"}
       [] l = "shows_dropped_at" -> {"hidden_dropped"}
       [] l = "lists_updated_at" -> {"list_my_lists", "contents_my_lists"}
       [] l = "lists_liked_at" -> {"list_liked_lists", "contents_liked_lists"}
       [] OTHER -> {}]

\* The window properties each comparison's action clears.
ActionProps ==
  [l \in SubLeaves |->
     CASE l \in {"movies_watched_at", "movies_paused_at"} -> {"movie"}
       [] l \in {"shows_dropped_at", "episodes_watched_at", "episodes_paused_at"} -> {"episode"}
       [] OTHER -> {}]

\* The index each comparison's action rebuilds.
ActionIndex ==
  [l \in SubLeaves |->
     CASE l = "movies_watched_at" -> {"movie_watched"}
       [] l = "episodes_watched_at" -> {"tvshow_watched"}
       [] l = "movies_paused_at" -> {"movie_progress"}
       [] l = "episodes_paused_at" -> {"tvshow_progress"}
       [] OTHER -> {}]

LaterLeaves == {l \in SubLeaves : Later(l)}

\* C10: in a pass that got past the watermark gate each of the 13
\* comparisons fires its own action exactly when its instant is later than
\* the baseline's, whatever the other 12 are: the calls made, the partitions
\* dropped, the properties cleared and the indexes rebuilt are those of the
\* later instants and no others.
C10_EachComparisonAlone ==
  (Done /\ outcome[Main] = "success")
    => /\ \A l \in SubLeaves : Later(l) <=> (\E i \in 1..Len(Fired) : Fired[i] = ActionCall[l])
       /\ parts = mid[Main].parts \ UNION {ActionParts[l] : l \in LaterLeaves}
       /\ props = mid[Main].props \ UNION {ActionProps[l] : l \in LaterLeaves}
       /\ \A i \in Indexes :
            index[i] # mid[Main].index[i] => \E l \in LaterLeaves : i \in ActionIndex[l]

C10_Witness ==
  /\ Done /\ outcome[Main] = "success"
  /\ LaterLeaves = {"shows_watchlisted_at"}
  /\ "watchlist_tvshow" \in mid[Main].parts
  /\ "watchlist_movie" \in parts

\* Only the `all` watermark of the fetched record is later than the baseline's.
OnlyWatermarkLater ==
  /\ Done /\ fetched[Main] = "data"
  /\ Later("all")
  /\ \A l \in SubLeaves : Same(l)

\* C11: when only the `all` watermark is later and every category/kind
\* instant equals the baseline's, the pass returns "success", makes no call
\* after the baseline swap (no partition dropped, no property cleared, no
\* index rebuilt) and the fetched record is the stored baseline.
C11_WatermarkAlone ==
  OnlyWatermarkLater
    => /\ outcome[Main] = "success"
       /\ Fired = <<>>
       /\ parts = mid[Main].parts
       /\ props = mid[Main].props
       /\ index = mid[Main].index
       /\ baseline = latest[Main]

C11_Witness ==
  /\ OnlyWatermarkLater
  /\ ~Forced
  /\ outcome[Main] = "success"
  /\ parts # {}
  /\ baseline # pre[Main].baseline

\* C14: a pass that got past the gate fetches the playback-progress list once
\* when movies.paused_at or episodes.paused_at is later (also when both are)
\* and not at all otherwise; the movie progress index is replaced only when
\* movies.paused_at is later, the TV progress index only when
\* episodes.paused_at is.
C14_SharedProgressFetch ==
  (Done /\ outcome[Main] \in {"success", "raised"})
    => /\ Count("fl_playback_progress") =
            IF Later("movies_paused_at") \/ Later("episodes_paused_at") THEN 1 ELSE 0
       /\ (Called("set_bulk_movie_progress")
             \/ index["movie_progress"] # mid[Main].index["movie_progress"])
            => Later("movies_paused_at")
       /\ (Called("set_bulk_tvshow_progress")
             \/ index["tvshow_progress"] # mid[Main].index["tvshow_progress"])
            => Later("episodes_paused_at")

C14_Witness ==
  /\ Done /\ outcome[Main] = "success"
  /\ Later("movies_paused_at") /\ Later("episodes_paused_at")
  /\ Count("fl_playback_progress") = 1
  /\ Called("set_bulk_movie_progress")
  /\ Called("set_bulk_tvshow_progress")

\* The instant that governs each index.
IndexLeaf ==
  [i \in Indexes |->
     CASE i = "movie_watched" -> "movies_watched_at"
       [] i = "tvshow_watched" -> "episodes_watched_at"
       [] i = "movie_progress" -> "movies_paused_at"
       [] i = "tvshow_progress" -> "episodes_paused_at"]

\* C15: in a pass that returned "success", every index whose governing
\* instant is later and whose pull was answered is bulk-replaced by the rows
\* of what the pull delivered: by no rows when the remote list is empty.
C15_AdvancedIndexReplaced ==
  (Done /\ outcome[Main] = "success")
    => \A i \in Indexes :
         (Later(IndexLeaf[i]) /\ pulled[Main][i] \in {"data", "empty"})
           => /\ Called("set_bulk_" \o i)
              /\ index[i] = IF pulled[Main][i] = "data"
                              THEN {latest[Main][IndexLeaf[i]]} ELSE {}

\* C16: a pull that fails (the transport hands back nothing, or a body that
\* is not of the expected shape) does not abort the pass: the pass returns
\* "success", the failed pull inserts no rows, and the list actions that
\* were due still run.
C16_PullFailureDoesNotAbort ==
  (Done /\ \E i \in Indexes : pulled[Main][i] \in {"none", "text"})
    => /\ outcome[Main] = "success"
       /\ \A i \in Indexes :
            pulled[Main][i] \in {"none", "text"} => index[i] \subseteq mid[Main].index[i]
       /\ \A l \in {"lists_updated_at", "lists_liked_at"} :
            Later(l) => Called(ActionCall[l])

\* ------------------------------------------- the comparator, applied alone

\* the milliseconds a timestamp string can spell after the second
Millis == {0, 1, 999}

\* The timestamp strings compared: well formed ones, and one the format does
\* not match.
Stamps == {Garbage} \cup {TS(sec) + ms : sec \in 0..MaxSeconds, ms \in Millis}

CompareInit ==
  /\ SyncIdle
  /\ AuthIdle
  /\ RestIdle
  /\ BulkIdle
  /\ TransportIdle
  /\ cmp_latest \in Stamps
  /\ cmp_cached \in Stamps
  /\ cmp_result = "unset"

\* result = _compare(latest, cached)
Compare ==
  /\ cmp_result = "unset"
  /\ cmp_result' = IF _compare(cmp_latest, cmp_cached) THEN "True" ELSE "False"
  /\ UNCHANGED <<cmp_latest, cmp_cached, sync, bulk, transport, auth, rest>>

CompareNext == Compare

CompareSpec == CompareInit /\ [][CompareNext]_vars

\* C12: the comparator fails open: when either operand does not parse with
\* the format, the result is True.
C12_FailOpen ==
  (cmp_result # "unset" /\ (cmp_latest = Garbage \/ cmp_cached = Garbage))
    => cmp_result = "True"

C12_Witness ==
  /\ cmp_latest = Garbage
  /\ cmp_cached = TS(MaxSeconds)
  /\ cmp_result = "True"

\* the whole seconds of a well-formed timestamp string
WholeSeconds(t) == (t - (t % 1000)) \div 1000

\* C13: when both operands parse, the result is True exactly when the whole
\* seconds of latest are strictly more than the whole seconds of cached: equal
\* strings, and strings of the same second with different milliseconds, are
\* not newer.
C13_StrictWholeSeconds ==
  (cmp_result # "unset" /\ cmp_latest # Garbage /\ cmp_cached # Garbage)
    => /\ cmp_result = "True" <=> WholeSeconds(cmp_latest) > WholeSeconds(cmp_cached)
       /\ cmp_latest = cmp_cached => cmp_result = "False"
       /\ WholeSeconds(cmp_latest) = WholeSeconds(cmp_cached) => cmp_result = "False"

C13_Witness ==
  /\ cmp_latest = TS(1) + 999
  /\ cmp_cached = TS(1)
  /\ cmp_result = "False"

\* ---------------------------------------------------- one bulk transform

\* fl_indicators_movies and fl_indicators_tv (one thread per record of the
\* history), fl_progress_movies (one thread per progress item), fl_progress_tv
\* (one thread per show, then the generator _process over the progress items).
Transforms == {"fl_indicators", "fl_progress_movies", "fl_progress_tv"}

Shows == {"a", "b"}

\* What the transform of a record does: it yields the record's tuple, it
\* yields none (no tmdb id, season 0), or it raises.
Faults == {"ok", "skip", "raises"}

BulkRecords == [show : Shows, fault : Faults]

Batches == UNION {[1..n -> BulkRecords] : n \in 0..MaxRecords}

Range(f) == {f[k] : k \in DOMAIN f}

\* lines 956-957: the shows of the progress items, the last of equal ones kept
RECURSIVE all_shows_from(_, _)
all_shows_from(b, k) ==
  IF k > Len(b) THEN <<>>
  ELSE (IF \E j \in (k + 1)..Len(b) : b[j].show = b[k].show THEN <<>> ELSE <<b[k].show>>)
         \o all_shows_from(b, k + 1)

all_shows(b) == all_shows_from(b, 1)

\* the threads a transform starts: lines 855, 877, 927, 958
Targets == IF transform = "fl_progress_tv" THEN Len(all_shows(batch)) ELSE Len(batch)

\* lines 943-948, inside the try of line 938: the tuples of one show; an
\* exception ends the loop over the progress items of that show.
RECURSIVE YieldShow(_, _, _)
YieldShow(b, show, k) ==
  IF k > Len(b) THEN <<>>
  ELSE IF b[k].show # show THEN YieldShow(b, show, k + 1)
  ELSE IF b[k].fault = "raises" THEN <<>>
  ELSE (IF b[k].fault = "ok" THEN <<k>> ELSE <<>>) \o YieldShow(b, show, k + 1)

\* lines 936-950: the generator, show after show of tmdb_list
RECURSIVE _process(_, _)
_process(b, shows) ==
  IF shows = <<>> THEN <<>>
  ELSE YieldShow(b, Head(shows), 1) \o _process(b, Tail(shows))

BulkInit ==
  /\ SyncIdle
  /\ AuthIdle
  /\ RestIdle
  /\ CompareIdle
  /\ TransportIdle
  /\ transform \in Transforms
  /\ batch \in Batches
  /\ threads = <<>>
  /\ insert_list = <<>>
  /\ tmdb_list = <<>>
  /\ joined = 0
  /\ bulk_rows = <<>>
  /\ bpc = "start"
  /\ produced = {}

\* lines 925-926, 954-955: fl_progress_* return when no item is left
Enter ==
  /\ bpc = "start"
  /\ bpc' = IF transform # "fl_indicators" /\ batch = <<>> THEN "returned" ELSE "spawn"
  /\ UNCHANGED <<transform, batch, threads, insert_list, tmdb_list, joined, bulk_rows,
                 produced, sync, compare, transport, auth, rest>>

\* list(make_thread_list(...)): every thread is started before the first join
Spawn ==
  /\ bpc = "spawn"
  /\ IF Len(threads) < Targets
       THEN /\ threads' = Append(threads, "running")
            /\ UNCHANGED bpc
       ELSE /\ bpc' = "join"
            /\ UNCHANGED threads
  /\ UNCHANGED <<transform, batch, insert_list, tmdb_list, joined, bulk_rows,
                 produced, sync, compare, transport, auth, rest>>

\* The thread of one record (lines 842-848, 861-870, 916-921) or of one show
\* (lines 933-935): it appends at most once, and an exception ends it alone.
Worker(k) ==
  /\ k \in 1..Len(threads)
  /\ threads[k] = "running"
  /\ threads' = [threads EXCEPT ![k] = "dead"]
  /\ IF transform = "fl_progress_tv"
       THEN /\ tmdb_list' = Append(tmdb_list, all_shows(batch)[k])
            /\ produced' = produced \cup {all_shows(batch)[k]}
            /\ UNCHANGED insert_list
       ELSE IF batch[k].fault = "ok"
         THEN /\ insert_list' = Append(insert_list, k)
              /\ produced' = produced \cup {k}
              /\ UNCHANGED tmdb_list
         ELSE UNCHANGED <<insert_list, tmdb_list, produced>>
  /\ UNCHANGED <<transform, batch, joined, bulk_rows, bpc, sync, compare, transport, auth, rest>>

\* the join that does not wait for its thread
Join_nowait ==
  /\ bpc = "join"
  /\ joined < Len(threads)
  /\ joined' = joined + 1
  /\ UNCHANGED <<transform, batch, threads, insert_list, tmdb_list, bulk_rows, bpc,
                 produced, sync, compare, transport, auth, rest>>

\* [i.join() for i in threads], lines 856, 878, 928, 959: thread after thread
Join ==
  /\ bpc = "join"
  /\ joined < Len(threads)
  /\ threads[joined + 1] = "dead"
  /\ joined' = joined + 1
  /\ UNCHANGED <<transform, batch, threads, insert_list, tmdb_list, bulk_rows, bpc,
                 produced, sync, compare, transport, auth, rest>>

\* set_bulk_*(insert_list), lines 857, 879, 929, 960-961
Replace ==
  /\ bpc = "join"
  /\ joined = Len(threads)
  /\ insert_list' = IF transform = "fl_progress_tv"
                      THEN _process(batch, tmdb_list) ELSE insert_list
  /\ bulk_rows' = insert_list'
  /\ bpc' = "done"
  /\ UNCHANGED <<transform, batch, threads, tmdb_list, joined, produced,
                 sync, compare, transport, auth, rest>>

BulkNext ==
  \/ Enter
  \/ Spawn
  \/ \E k \in 1..MaxRecords : Worker(k)
  \/ Join
  \/ Replace

BulkSpec == BulkInit /\ [][BulkNext]_vars

\* The records whose transform yields a tuple.
Sound == {k \in 1..Len(batch) : batch[k].fault = "ok"}

\* C17: a record whose transform raises is the only one left out: the bulk
\* replace is handed the tuple of every other record that yields one.
C17_OnlyTheBadRecordOmitted ==
  bpc = "done" => Range(bulk_rows) = Sound

\* C18: the bulk replace runs only after every worker thread has been started
\* and joined, and the list the workers filled holds, once each, what every
\* worker appended; before the replace no row is handed over.
C18_ReplaceAfterJoinAll ==
  /\ bpc # "done" => bulk_rows = <<>>
  /\ bpc = "done"
       => /\ Len(threads) = Targets
          /\ \A k \in 1..Len(threads) : threads[k] = "dead"
          /\ IF transform = "fl_progress_tv"
               THEN /\ Range(tmdb_list) = produced
                    /\ Len(tmdb_list) = Cardinality(produced)
               ELSE /\ Range(bulk_rows) = produced
                    /\ Len(bulk_rows) = Cardinality(produced)
                    /\ produced = Sound

C18_Witness ==
  /\ bpc = "done"
  /\ transform = "fl_indicators"
  /\ Len(batch) = MaxRecords
  /\ bulk_rows = <<2, 1>>

\* ------------------------------------------------ one call of call_flicklist

Methods == {"none", "post", "delete", "get"}

\* the arguments a call is made with (lines 87, 97)
Calls == [method : Methods, data : {"none", "body"}, is_delete : BOOLEAN, pagination : BOOLEAN]

\* lines 102-114: the request that is sent
Verb(c) ==
  IF c.method # "none"
    THEN (IF c.method = "post" THEN "POST" ELSE IF c.method = "delete" THEN "DELETE" ELSE "GET")
    ELSE IF c.data # "none" THEN "POST"
    ELSE IF c.is_delete THEN "DELETE"
    ELSE "GET"

\* requests.* raises instead of answering: no connection, or the timeout of
\* 15 seconds ran out
NoAnswer == 0

Statuses == {NoAnswer, 200, 401, 429, 500}

\* the Retry-After header: missing, a number of seconds, or not a number
RetryAfters == {Absent, 2, Garbage}

\* the body: a JSON object, a JSON list, or text that is not JSON
Bodies == {"dict", "list", "text"}

Answers == [status : Statuses, retry_after : RetryAfters, body : Bodies]

\* resp.headers.get('Retry-After', 5)
DefaultRetryAfter == 5

\* raise_for_status() raising for server errors only
raise_for_status_5xx(status) == status >= 500 /\ status < 600

\* resp.raise_for_status(), line 115: raises for every 4xx and 5xx status
raise_for_status(status) == status >= 400 /\ status < 600

\* lines 118-120 and 123-125
ReturnNone == [value |-> "None", page |-> IF call.pagination THEN "page_no" ELSE "-"]

\* lines 131-141
ReturnBody(body) ==
  [value |-> body,
   page |-> IF ~call.pagination THEN "-"
            ELSE IF body = "dict" THEN "total_pages" ELSE "page_no"]

Answered(a, seconds) ==
  history' = Append(history, [verb |-> Verb(call), status |-> a.status,
                              retry_after |-> a.retry_after, slept |-> seconds])

TransportInit ==
  /\ SyncIdle
  /\ AuthIdle
  /\ RestIdle
  /\ CompareIdle
  /\ BulkIdle
  /\ call \in Calls
  /\ t_pc = "request"
  /\ requests = 0
  /\ history = <<>>
  /\ result = NoResult

\* One HTTP request of the call and what the call does with the answer,
\* lines 101-141.
Request(a) ==
  /\ t_pc = "request"
  /\ requests < MaxRequests
  /\ requests' = requests + 1
  /\ IF a.status = NoAnswer \/ raise_for_status(a.status)
       THEN \* lines 116-120
            /\ Answered(a, 0)
            /\ result' = ReturnNone
            /\ t_pc' = "returned"
       ELSE IF a.status = 401
         THEN \* lines 121-125
              /\ Answered(a, 0)
              /\ result' = ReturnNone
              /\ t_pc' = "returned"
         ELSE IF a.status = 429
           THEN \* lines 126-130: int() of a header that is not a number raises
                IF a.retry_after = Garbage
                  THEN /\ Answered(a, 0)
                       /\ t_pc' = "raised"
                       /\ UNCHANGED result
                  ELSE /\ Answered(a, IF a.retry_after = Absent
                                        THEN DefaultRetryAfter ELSE a.retry_after)
                       /\ t_pc' = "request"
                       /\ UNCHANGED result
           ELSE \* lines 131-141
                /\ Answered(a, 0)
                /\ result' = ReturnBody(a.body)
                /\ t_pc' = "returned"
  /\ UNCHANGED <<call, sync, compare, bulk, auth, rest>>

TransportNext == \E a \in Answers : Request(a)

TransportSpec == TransportInit /\ [][TransportNext]_vars

\* C19: after an answer 429 the call sleeps for the seconds of Retry-After (5
\* when the header is missing) and sends the same request again; after an
\* answer 401 it returns None ((None, page_no) when paginated) and sends
\* nothing more.
C19_RetryOn429 ==
  \A k \in 1..Len(history) :
    /\ (history[k].status = 429 /\ history[k].retry_after # Garbage)
         => /\ history[k].slept = IF history[k].retry_after = Absent
                                    THEN DefaultRetryAfter ELSE history[k].retry_after
            /\ k < Len(history) \/ t_pc = "request"
            /\ k < Len(history) => history[k + 1].verb = history[k].verb
    /\ history[k].status = 401
         => /\ k = Len(history)
            /\ t_pc = "returned"
            /\ result = ReturnNone

\* C20: whatever the server answers, also 429 to every request, the call makes
\* one HTTP request and has returned when that request is over.
C20_ReturnsAfterOneRequest ==
  /\ requests <= 1
  /\ requests = 1 => (t_pc = "returned" /\ result # NoResult)

C20_Witness ==
  /\ requests = 1
  /\ history[1].status = 429
  /\ t_pc = "returned"
  /\ result.value = "None"

\* ------------------------------------- the reconciler, further properties

\* C25: the daily gate is tested before the account check: a non-forced pass
\* that finds the gate due and no active account has dropped the daily
\* partitions and set the gate to now + 86400 when it reaches the account
\* check, and then returns "no account" with nothing else done.
C25_DailyBeforeAccount ==
  /\ (pc[Main] = "account" /\ ~Forced /\ WasDue)
       => /\ log[Main] = <<"fl_refresh_token", "clear_daily_cache">>
          /\ parts = pre[Main].parts \ DailyPartitions
          /\ settings.next_daily_clear = pre[Main].now + DaySeconds
  /\ (Done /\ ~Forced /\ WasDue /\ ~WasActive)
       => /\ outcome[Main] = "no account"
          /\ log[Main] = <<"fl_refresh_token", "clear_daily_cache">>
          /\ parts = pre[Main].parts \ DailyPartitions
          /\ settings.next_daily_clear = pre[Main].now + DaySeconds

C25_Witness ==
  /\ Done /\ ~Forced /\ WasDue /\ ~WasActive
  /\ outcome[Main] = "no account"
  /\ pre[Main].parts \cap DailyPartitions # {}
  /\ pre[Main].now > 0

\* C26: a forced pass never makes the daily sweep and leaves the stored
\* next_daily_clear as it was, also when that instant is already past.
C26_ForcedSkipsDaily ==
  (passes > 0 /\ Forced)
    => /\ ~Called("clear_daily_cache")
       /\ settings.next_daily_clear = pre[Main].settings.next_daily_clear

C26_Witness ==
  /\ Done /\ Forced /\ WasDue
  /\ pre[Main].now > pre[Main].settings.next_daily_clear
  /\ Called("clear_all_fl_cache_data")
  /\ settings.next_daily_clear = pre[Main].settings.next_daily_clear

\* C27: whenever no pass runs and the stored baseline's movies.watched_at
\* (resp. episodes.watched_at) is the remote one, moved since the cache was
\* filled together with the watermark, the movie (resp. episode) watched
\* index holds the rows of the remote history as of that instant: a pull
\* that failed is made up for before the baseline shows the instant.
C27_WatchedIndexFollowsBaseline ==
  \A i \in {"movie_watched", "tvshow_watched"} :
    (/\ pc[Main] = "idle"
     /\ baseline[IndexLeaf[i]] = remote[IndexLeaf[i]]
     /\ remote[IndexLeaf[i]] # fallback_date
     /\ remote["all"] # fallback_date)
      => index[i] \in {RemoteData(IndexLeaf[i]), {}}

\* C28: a call made with is_delete=True and no explicit method sends a
\* DELETE, with or without a data payload.
C28_DeleteWhenAsked ==
  \A k \in 1..Len(history) :
    (call.is_delete /\ call.method = "none") => history[k].verb = "DELETE"

\* ------------------------------------- records with absent categories/kinds

Categories ==
  {{"movies_collected_at", "movies_watchlisted_at", "movies_watched_at", "movies_paused_at"},
   {"shows_watchlisted_at", "shows_dropped_at"},
   {"episodes_collected_at", "episodes_watched_at", "episodes_paused_at"},
   {"lists_updated_at", "lists_liked_at"}}

\* What a record may lack: nothing, a whole category, one kind, the
\* watermark, everything but the watermark, everything.
AbsentSets ==
  {{}, SubLeaves, Leaves} \cup Categories
    \cup {{l} : l \in {"all", "recommendations", "favorites", "movies_watched_at",
                        "episodes_paused_at", "lists_liked_at"}}

\* the record of second t that lacks the keys of A
Sparse(A, t) == [l \in Leaves |-> IF l \in A THEN Absent ELSE TS(t)]

SparseInit ==
  /\ \E A, B \in AbsentSets, t \in 1..MaxSeconds :
        SyncStartWith(Procs, AuthorizedSettings, HourSeconds, Sparse(A, t), Sparse(B, 1))
  /\ CompareIdle
  /\ BulkIdle
  /\ TransportIdle
  /\ AuthIdle
  /\ RestIdle

SparseNext == Pass(Main)

SparseSpec == SparseInit /\ [][SparseNext]_vars

\* the instant an absent key is compared as
Sentinel(snapshot, leaf) ==
  IF snapshot[leaf] = Absent THEN TS(1) ELSE snapshot[leaf]

\* the comparison of leaf as the sentinel rule has it
SentinelLater(leaf) ==
  WholeSeconds(Sentinel(latest[Main], leaf)) > WholeSeconds(Sentinel(cached[Main], leaf))

BothAbsent(leaf) == latest[Main][leaf] = Absent /\ cached[Main][leaf] = Absent

\* C22: a category or kind absent from the fetched record or from the
\* baseline is compared as 2020-01-01T00:00:01.000Z: the pass stops at the
\* gate exactly when the watermark so read is not later, a pass that got past
\* it fires each comparison's action exactly when the instants so read are
\* later, a kind absent on both sides fires nothing, and no pass ends with
\* an exception other than the one a text body of the progress pull raises.
C22_AbsentIsSentinel ==
  /\ (Done /\ fetched[Main] = "data" /\ outcome[Main] # "failed")
       => (outcome[Main] = "not needed" <=> ~SentinelLater("all"))
  /\ (Done /\ outcome[Main] = "success")
       => \A l \in SubLeaves :
            /\ SentinelLater(l) <=> (\E i \in 1..Len(Fired) : Fired[i] = ActionCall[l])
            /\ BothAbsent(l) => ~Called(ActionCall[l])
  /\ (Done /\ outcome[Main] = "raised")
       => \E i \in {"movie_progress", "tvshow_progress"} : pulled[Main][i] = "text"

C22_Witness ==
  /\ Done /\ outcome[Main] = "success" /\ fetched[Main] = "data"
  /\ BothAbsent("movies_watched_at")
  /\ cached[Main]["favorites"] = Absent /\ latest[Main]["favorites"] = TS(2)
  /\ ~Called("pull_history_movie_watched")
  /\ Called("clear_fl_favorites")

\* --------------------------------------------- two passes at the same time

RaceProcs == {"main", "other"}

\* the server's record after the kinds of S and the watermark moved
Moved(S) == [l \in Leaves |-> IF l \in S \/ l = "all" THEN TS(2) ELSE fallback_date]

\* Two callers (the service and a widget refresh, say) share the store and
\* the server's record, which does not change while they run.
RaceInit ==
  /\ \E S \in ChangeSets :
        SyncStartWith(RaceProcs, AuthorizedSettings, HourSeconds, Moved(S), default_activities)
  /\ CompareIdle
  /\ BulkIdle
  /\ TransportIdle
  /\ AuthIdle
  /\ RestIdle

RaceNext == \E p \in RaceProcs : Pass(p)

RaceSpec == RaceInit /\ [][RaceNext]_vars

\* each of the two callers has made its pass, got the server's record, and returned
BothReturned ==
  /\ passes = 2
  /\ \A p \in RaceProcs :
        /\ pc[p] = "idle"
        /\ log[p] # <<>>
        /\ fetched[p] = "data"
        /\ outcome[p] \in {"success", "not needed"}

NoToken == {"0", "empty_setting", ""}

\* call_flicklist, lines 93-96: the Authorization header of a request
Authorization(s, with_auth) ==
  IF with_auth /\ s.token # "" /\ s.token \notin NoToken
    THEN "Bearer " \o s.token ELSE "none"

\* the check that takes any stored text for a token
_is_authenticated_nonempty(s) == s.token # ""

\* fl_calendar._is_authenticated
_is_authenticated(s) == s.token # "" /\ s.token \notin NoToken

CodeResults == {"codes", "text", "none"}

TokenResults == {"none", "tokenA", "tokenB"}

UserResults == {"user", "blank", "none", "raise"}

AuthFrame == <<env, baseline, props, index, locals, ghost, compare, bulk, transport, validation, rest>>

\* lines 232-235: fl_get_device_code(); nothing handed back: return False
DeviceCode(c) ==
  /\ a_pc = "idle"
  /\ pc[Main] = "idle"
  /\ auths < MaxAuths
  /\ passes < MaxPasses
  /\ auths' = auths + 1
  /\ IF c = "none"
       THEN a_pc' = "idle" /\ a_result' = "False"
       ELSE a_pc' = (IF c = "codes" THEN "poll" ELSE "poll_text") /\ a_result' = "unset"
  /\ UNCHANGED <<AuthFrame, settings, parts, a_passes, issued, session>>

\* lines 236-240 and 249-250: fl_get_device_token(code), which hands back the
\* answer that carries an access_token, or None (cancelled, expired,
\* denied, or codes that are no dict: lines 166-216); the token is stored
DeviceToken(t) ==
  /\ a_pc \in {"poll", "poll_text"}
  /\ a_pc = "poll_text" => t = "none"
  /\ IF t = "none"
       THEN /\ a_pc' = "idle"
            /\ a_result' = "False"
            /\ UNCHANGED <<settings, issued, session>>
       ELSE /\ settings' = [settings EXCEPT !.token = t, !.watched_indicators = "1"]
            /\ issued' = t
            /\ session' = "granted"
            /\ a_pc' = "me"
            /\ UNCHANGED a_result
  /\ UNCHANGED <<AuthFrame, parts, a_passes, auths>>

\* lines 241-247: the user lookup; its failure is swallowed
UserLookup(u) ==
  /\ a_pc = "me"
  /\ settings' = IF u = "user" THEN [settings EXCEPT !.user = "user"]
                 ELSE IF u = "blank" THEN [settings EXCEPT !.user = ""]
                 ELSE settings
  /\ a_pc' = "sync"
  /\ a_passes' = passes
  /\ UNCHANGED <<AuthFrame, parts, a_result, auths, issued, session>>

\* line 248: fl_sync_activities(force_update=True) is called
SyncForced ==
  /\ a_pc = "sync"
  /\ passes = a_passes
  /\ Start(Main, TRUE)

\* lines 248-249: the pass is over; return True, unless it ended with an exception
AuthReturn ==
  /\ a_pc = "sync"
  /\ passes > a_passes
  /\ pc[Main] = "idle"
  /\ a_pc' = "idle"
  /\ a_result' = IF outcome[Main] = "raised" THEN "raised" ELSE "True"
  /\ UNCHANGED <<AuthFrame, settings, parts, a_passes, auths, issued, session>>

\* fl_revoke_authentication, lines 253-260
Revoke ==
  /\ a_pc = "idle"
  /\ pc[Main] = "idle"
  /\ auths < MaxAuths
  /\ auths' = auths + 1
  /\ settings' = [token |-> "0", user |-> "empty_setting",
                  watched_indicators |-> "0", next_daily_clear |-> 0]
  /\ parts' = clear_all_fl_cache_data(parts)
  /\ session' = "revoked"
  /\ a_result' = "unset"
  /\ UNCHANGED <<AuthFrame, a_pc, a_passes, issued>>

\* a pass called by the service or a widget while no authentication runs
Background(f) ==
  /\ a_pc = "idle"
  /\ Start(Main, f)

\* An installation, authorized or not, whose server record has moved since
\* the cache was filled; the token check answers, fails or raises.
AuthInit ==
  /\ \E s \in {RevokedSettings, AuthorizedSettings} :
        SyncStartWith(Procs, s, HourSeconds, Moved(SubLeaves), default_activities)
  /\ CompareIdle
  /\ BulkIdle
  /\ TransportIdle
  /\ RestIdle
  /\ validation \in RefreshResults
  /\ a_pc = "idle"
  /\ a_result = "unset"
  /\ a_passes = 0
  /\ auths = 0
  /\ issued = "-"
  /\ session = "initial"

AuthNext ==
  \/ \E c \in CodeResults : DeviceCode(c)
  \/ \E t \in TokenResults : DeviceToken(t)
  \/ \E u \in UserResults : UserLookup(u)
  \/ SyncForced
  \/ AuthReturn
  \/ Revoke
  \/ \E f \in BOOLEAN : Background(f)
  \/ Steps(Main)

AuthSpec == AuthInit /\ [][AuthNext]_vars

\* what a pass returns, told from the account, the force flag, the fetch, the
\* watermark and the progress pull alone
ExpectedOutcome ==
  IF ~WasActive /\ ~Forced THEN "no account"
  ELSE IF fetched[Main] = "raise" THEN "failed"
  ELSE IF ~Later("all") THEN "not needed"
  ELSE IF \E i \in {"movie_progress", "tvshow_progress"} : pulled[Main][i] = "text" THEN "raised"
  ELSE "success"

AccountChanged == settings'.token # settings.token \/ settings'.user # settings.user

C29_TokenVisibility ==
  /\ session = "granted"
       => /\ settings.token = issued
          /\ _is_authenticated(settings)
          /\ Authorization(settings, TRUE) = "Bearer " \o issued
  /\ session = "revoked"
       => /\ ~_is_authenticated(settings)
          /\ Authorization(settings, TRUE) = "none"

\* authorized, revoked, authorized again with another token
C29_Witness ==
  /\ session = "granted" /\ a_pc = "idle" /\ a_result = "True"
  /\ auths = 3 /\ passes = 2
  /\ settings.next_daily_clear = 0
  /\ issued = "tokenB" /\ settings.token = "tokenB"

\* C30: fl_authenticate returns False with every store as it was when it gets
\* no device code or no access token; it stores the token only when one was
\* obtained, and once its forced pass is over it returns True.
C30_AuthenticateOutcome ==
  [][/\ (a_result' = "False" /\ a_result = "unset")
          => /\ a_pc \in {"idle", "poll", "poll_text"}
             /\ UNCHANGED stores
     /\ (a_pc = "idle" /\ a_pc' \in {"poll", "poll_text"}) => UNCHANGED stores
     /\ (a_pc \in {"poll", "poll_text"} /\ settings' # settings)
          => a_pc' = "me" /\ settings'.token = issued' /\ issued' \in TokenResults \ {"none"}
     /\ (a_pc = "sync" /\ a_pc' = "idle")
          => /\ Forced /\ Called("clear_all_fl_cache_data")
             /\ a_result' = "True"]_vars

\* ------------------------------------------------- fl_get_device_token

\* What /auth/device/token answers to one poll. "other_error" is a dict with
\* any other error value (or none); "none" is no usable answer (None, a list,
\* text).
TokenAnswers == {"access_token", "authorization_pending", "expired_token",
                 "access_denied", "other_error", "none"}

\* lines 169-186: start = time.time(), the dialog open, time_passed = 0. Time
\* is counted in polling intervals.
PollInit ==
  /\ SyncIdle
  /\ CompareIdle
  /\ BulkIdle
  /\ TransportIdle
  /\ AuthIdle
  /\ page = <<>>
  /\ op = <<>>
  /\ calendar = <<>>
  /\ widgets = <<>>
  /\ \E e \in 1..MaxExpiresIn :
        poll = [pc |-> "loop", expires_in |-> e, elapsed |-> 0, time_passed |-> 0,
                iscanceled |-> FALSE, polled_at |-> 0, polls |-> 0,
                response |-> "-", result |-> "None"]

PollFrame == <<sync, compare, bulk, transport, auth, page, op, calendar, widgets>>

\* line 188: while not progressDialog.iscanceled() and time_passed < expires_in
LoopTest == ~poll.iscanceled /\ poll.time_passed < poll.expires_in

\* lines 189-207: one turn of the loop: the sleep of one interval, the poll,
\* and what the answer does to result and time_passed
PollOnce(r) ==
  /\ poll.pc = "loop"
  /\ LoopTest
  /\ poll.elapsed < MaxPolls
  /\ LET t == poll.elapsed + 1
     IN poll' = [poll EXCEPT
                   !.elapsed = t,
                   !.polled_at = poll.elapsed,
                   !.polls = @ + 1,
                   !.response = r,
                   !.result = IF r = "access_token" THEN "token" ELSE @,
                   !.time_passed = IF r \in {"authorization_pending", "none"} THEN t ELSE @,
                   !.pc = IF r \in {"access_token", "expired_token", "access_denied"}
                            THEN "returned" ELSE @]
  /\ UNCHANGED PollFrame

\* the loop test fails: lines 208-216, return result
LoopExit ==
  /\ poll.pc = "loop"
  /\ ~LoopTest
  /\ poll' = [poll EXCEPT !.pc = "returned"]
  /\ UNCHANGED PollFrame

\* the user cancels the dialog
Cancel ==
  /\ poll.pc = "loop"
  /\ ~poll.iscanceled
  /\ poll' = [poll EXCEPT !.iscanceled = TRUE]
  /\ UNCHANGED PollFrame

PollNext ==
  \/ \E r \in TokenAnswers : PollOnce(r)
  \/ LoopExit
  \/ Cancel

PollSpec == PollInit /\ [][PollNext]_vars

\* C31: whatever the server answers, no poll is begun once the dialog was
\* cancelled or once expires_in has elapsed since the start, and a token is
\* returned only if the last answer carried an access_token.
C31_PollingStops ==
  /\ poll.polls > 0 => poll.polled_at < poll.expires_in
  /\ poll.result = "token" => poll.response = "access_token"
  /\ (poll.pc = "returned" /\ poll.response = "access_token") => poll.result = "token"

\* ------------------------------- operations on remote lists and watchlist

ListOperations == {"add_to_list", "remove_from_list", "add_to_watchlist",
                   "remove_from_watchlist"}

\* one remote call each, behind a dialog the user may leave (make, delete)
SingleOperations == {"make_new_fl_list", "delete_fl_list", "hide_unhide_progress_items"}

Operations == ListOperations \cup SingleOperations

\* the remote calls the operation is to make: one per item with a tmdb id
\* (lines 608-612, 623-627, 637-640, 651-654), one for the others, none when
\* the dialog is left (lines 807-808, 818-819)
CallsOf(name) ==
  IF name \in ListOperations THEN 0..MaxItems
  ELSE IF name = "hide_unhide_progress_items" THEN {1}
  ELSE {0, 1}

OpInit ==
  /\ \E S \in {{"lists_updated_at"}, {"movies_watchlisted_at", "shows_dropped_at"}} :
        SyncStartWith(Procs, AuthorizedSettings, HourSeconds, Moved(S), default_activities)
  /\ CompareIdle
  /\ BulkIdle
  /\ TransportIdle
  /\ AuthIdle
  /\ page = <<>>
  /\ poll = <<>>
  /\ calendar = <<>>
  /\ widgets = <<>>
  /\ \E name \in Operations, n \in 0..MaxItems :
        /\ n \in CallsOf(name)
        /\ op = [name |-> name, items |-> n, calls |-> <<>>, pc |-> "calls"]

OpFrame == <<sync, compare, bulk, transport, auth, page, poll, calendar, widgets>>

\* lines 641-642: add_to_watchlist returns on the first call that hands back None
ReturnsEarly(name, r) == name = "add_to_watchlist" /\ r = "None"

\* one remote mutation call of the operation (lines 615, 629, 640, 654, 811,
\* 821, 523-525); call_flicklist hands back the answer or None
OpCall(r) ==
  /\ op.pc = "calls"
  /\ Len(op.calls) < op.items
  /\ op' = [op EXCEPT !.calls = Append(@, r),
                       !.pc = IF ReturnsEarly(op.name, r) THEN "returned" ELSE @]
  /\ UNCHANGED OpFrame

\* the calls are made: add_to_list without items returns (lines 613-614), so
\* do make_new_fl_list and delete_fl_list when the dialog was left; the
\* others go on to fl_sync_activities()
AfterCalls ==
  /\ op.pc = "calls"
  /\ Len(op.calls) = op.items
  /\ op' = [op EXCEPT !.pc = IF op.items = 0 /\ op.name \in {"add_to_list", "make_new_fl_list",
                                                             "delete_fl_list"}
                               THEN "returned" ELSE "sync"]
  /\ UNCHANGED OpFrame

\* fl_sync_activities() is called: lines 528, 618, 632, 646, 656, 812, 822
OpSync ==
  /\ op.pc = "sync"
  /\ passes = 0
  /\ Start(Main, FALSE)

\* the pass is over and the operation returns
OpReturn ==
  /\ op.pc = "sync"
  /\ passes > 0
  /\ pc[Main] = "idle"
  /\ op' = [op EXCEPT !.pc = "returned"]
  /\ UNCHANGED OpFrame

OpNext ==
  \/ \E r \in {"answer", "None"} : OpCall(r)
  \/ AfterCalls
  \/ OpSync
  \/ OpReturn
  \/ Steps(Main)

OpSpec == OpInit /\ [][OpNext]_vars

\* C32: an operation that has returned after issuing at least one remote
\* mutation call has run a reconcile pass, whatever its calls handed back.
C32_ReconcileAfterMutation ==
  (op.pc = "returned" /\ Len(op.calls) > 0) => Done

\* ------------------------------------- the tuples of the bulk transforms

FilterTransforms == {"fl_indicators_movies", "fl_indicators_tv",
                     "fl_progress_movies", "fl_progress_tv"}

\* A record of the watched history or of fl_playback_progress(): the tmdb id
\* its ids resolve to (0: none), the title (of the show, for an episode), the
\* season, the progress, the type. The record's own id is its place in the list.
FilterRecords == [type : {"movie", "episode"}, progress : {1, 2}, tmdb : {0, 1, 2},
                  title : {"T", "U"}, season : {0, 1}]

FilterBatches == UNION {[1..n -> FilterRecords] : n \in 0..MaxRecords}

Places(b) == [k \in 1..Len(b) |-> k]

\* get_fl_movie_id / get_fl_tvshow_id, lines 1179-1210: the tmdb id, or None
Resolved(id) == id # 0

\* fl_indicators_movies._process, lines 842-848
MovieWatchedRows(b) ==
  LET keep(k) == Resolved(b[k].tmdb)
      row(k) == [kind |-> "movie", tmdb |-> b[k].tmdb, season |-> 0, rec |-> k]
      kept == SelectSeq(Places(b), keep)
  IN [i \in 1..Len(kept) |-> row(kept[i])]

\* fl_indicators_tv._process, lines 861-870
EpisodeWatchedRows(b) ==
  LET keep(k) == Resolved(b[k].tmdb) /\ b[k].season > 0
      row(k) == [kind |-> "episode", tmdb |-> b[k].tmdb, season |-> b[k].season, rec |-> k]
      kept == SelectSeq(Places(b), keep)
  IN [i \in 1..Len(kept) |-> row(kept[i])]

\* lines 925 and 954: the progress items of a type with progress > 1
progress_items(b, type) ==
  LET keep(k) == b[k].type = type /\ b[k].progress > 1
  IN SelectSeq(Places(b), keep)

\* fl_progress_movies._process, lines 916-921
MovieProgressRows(b) ==
  LET keep(k) == Resolved(b[k].tmdb)
      row(k) == [kind |-> "movie", tmdb |-> b[k].tmdb, season |-> 0, rec |-> k]
      kept == SelectSeq(progress_items(b, "movie"), keep)
  IN [i \in 1..Len(kept) |-> row(kept[i])]

\* the show of a progress item: its ids and title
ShowOf(b, k) == [tmdb |-> b[k].tmdb, title |-> b[k].title]

\* lines 956-957: the shows of the progress items, the last of equal ones kept
ProgressShows(b) ==
  LET items == progress_items(b, "episode")
      final(i) == \A j \in (i + 1)..Len(items) : ShowOf(b, items[j]) # ShowOf(b, items[i])
      kept == SelectSeq(Places(items), final)
  IN [i \in 1..Len(kept) |-> ShowOf(b, items[kept[i]])]

\* lines 943-948: the tuples of one entry of tmdb_list: every progress item
\* whose show title is the entry's, with a season > 0
RowsOfShow(b, show) ==
  LET keep(k) == b[k].title = show.title /\ b[k].season > 0
      row(k) == [kind |-> "episode", tmdb |-> show.tmdb, season |-> b[k].season, rec |-> k]
      kept == SelectSeq(progress_items(b, "episode"), keep)
  IN [i \in 1..Len(kept) |-> row(kept[i])]

\* fl_progress_tv._process, lines 936-950: entry after entry of tmdb_list,
\* those without a tmdb id passed over
RECURSIVE EpisodeProgressRows(_, _)
EpisodeProgressRows(b, shows) ==
  IF shows = <<>> THEN <<>>
  ELSE (IF Resolved(Head(shows).tmdb) THEN RowsOfShow(b, Head(shows)) ELSE <<>>)
         \o EpisodeProgressRows(b, Tail(shows))

\* the orders in which the threads of lines 958-959 may fill tmdb_list
Orders(shows) ==
  {o \in [1..Len(shows) -> 1..Len(shows)] : \A i, j \in 1..Len(shows) : i # j => o[i] # o[j]}

FilterInit ==
  /\ SyncIdle
  /\ CompareIdle
  /\ TransportIdle
  /\ AuthIdle
  /\ RestIdle
  /\ transform \in FilterTransforms
  /\ batch \in FilterBatches
  /\ threads = <<>>
  /\ insert_list = <<>>
  /\ tmdb_list = <<>>
  /\ joined = 0
  /\ bulk_rows = <<>>
  /\ bpc = "start"
  /\ produced = {}

FilterFrame == <<transform, batch, threads, joined, produced, sync, compare, transport, auth, rest>>

\* fl_indicators_movies / fl_indicators_tv from the items of the history on
\* (lines 854-857, 876-879): the tuples, and the bulk replace
Indicators ==
  /\ bpc = "start"
  /\ transform \in {"fl_indicators_movies", "fl_indicators_tv"}
  /\ insert_list' = IF transform = "fl_indicators_movies"
                      THEN MovieWatchedRows(batch) ELSE EpisodeWatchedRows(batch)
  /\ bulk_rows' = insert_list'
  /\ bpc' = "done"
  /\ UNCHANGED <<tmdb_list, FilterFrame>>

\* fl_progress_movies, lines 914-929
ProgressMovies ==
  /\ bpc = "start"
  /\ transform = "fl_progress_movies"
  /\ IF progress_items(batch, "movie") = <<>>
       THEN /\ bpc' = "returned"
            /\ UNCHANGED <<insert_list, bulk_rows>>
       ELSE /\ insert_list' = MovieProgressRows(batch)
            /\ bulk_rows' = insert_list'
            /\ bpc' = "done"
  /\ UNCHANGED <<tmdb_list, FilterFrame>>

\* fl_progress_tv, lines 931-961, its threads having filled tmdb_list in the order o
ProgressTv(o) ==
  /\ bpc = "start"
  /\ transform = "fl_progress_tv"
  /\ IF progress_items(batch, "episode") = <<>>
       THEN /\ o = <<>>
            /\ bpc' = "returned"
            /\ UNCHANGED <<insert_list, bulk_rows, tmdb_list>>
       ELSE /\ o \in Orders(ProgressShows(batch))
            /\ tmdb_list' = [i \in 1..Len(o) |-> ProgressShows(batch)[o[i]]]
            /\ insert_list' = EpisodeProgressRows(batch, tmdb_list')
            /\ bulk_rows' = insert_list'
            /\ bpc' = "done"
  /\ UNCHANGED FilterFrame

FilterNext ==
  \/ Indicators
  \/ ProgressMovies
  \/ \E o \in UNION {[1..n -> 1..n] : n \in 0..MaxRecords} : ProgressTv(o)

FilterSpec == FilterInit /\ [][FilterNext]_vars

\* C33: every tuple handed to a bulk replace comes from a record whose tmdb
\* id resolves; an episode tuple from a record with a season > 0; a progress
\* tuple from a record with progress > 1 and of the transform's own type.
C33_TuplesFiltered ==
  \A i \in 1..Len(bulk_rows) :
    LET t == bulk_rows[i]
        record == batch[t.rec]
    IN /\ Resolved(record.tmdb)
       /\ t.kind = "episode" => record.season > 0
       /\ transform = "fl_progress_movies" => record.type = "movie" /\ record.progress > 1
       /\ transform = "fl_progress_tv" => record.type = "episode" /\ record.progress > 1

\* the episode records in progress that fl_progress_tv is to turn into tuples
InProgress ==
  {k \in 1..Len(batch) : /\ batch[k].type = "episode" /\ batch[k].progress > 1
                         /\ batch[k].season > 0 /\ Resolved(batch[k].tmdb)}

\* C34: fl_progress_tv hands over exactly one tuple for every in-progress
\* episode record, and that tuple has the id of the record's own show.
C34_OneTuplePerEpisode ==
  (transform = "fl_progress_tv" /\ bpc \in {"done", "returned"})
    => \A k \in InProgress :
         /\ Cardinality({i \in 1..Len(bulk_rows) : bulk_rows[i].rec = k}) = 1
         /\ \A i \in 1..Len(bulk_rows) :
              bulk_rows[i].rec = k => bulk_rows[i].tmdb = batch[k].tmdb

\* ------------------------------------------ the shapes of a paginated response

ItemLists == {<<>>, <<"a">>, <<"a", "b">>}

\* a JSON value as far as _extract_paginated tells values apart: no such key,
\* null, or a list
Absent_key == [kind |-> "absent", of |-> <<>>]
Null == [kind |-> "null", of |-> <<>>]
ListOf(l) == [kind |-> "list", of |-> l]
Values == {Absent_key, Null} \cup {ListOf(l) : l \in ItemLists}

\* total_pages of a dict: no such key (<<>>), or a number
TotalPages == {<<>>, <<1>>, <<3>>}

\* what call_flicklist hands back: None, a list, a dict, or anything else (a text)
Shapes ==
  {[kind |-> k, of |-> <<>>, results |-> Absent_key, items |-> Absent_key, total_pages |-> <<>>] :
     k \in {"none", "text"}}
  \cup {[kind |-> "list", of |-> l, results |-> Absent_key, items |-> Absent_key, total_pages |-> <<>>] :
           l \in ItemLists}
  \cup {[kind |-> "dict", of |-> <<>>, results |-> r, items |-> i, total_pages |-> t] :
           r \in Values, i \in Values, t \in TotalPages}

\* dict.get(key, default)
GetOr(value, default) == IF value = Absent_key THEN default ELSE value

\* _extract_paginated, lines 65-75: the items and the page count
_extract_paginated(data) ==
  CASE data.kind = "none" -> <<ListOf(<<>>), "1">>
    [] data.kind = "dict" ->
         <<GetOr(data.results, GetOr(data.items, ListOf(<<>>))),
           IF data.total_pages = <<>> THEN ToString(1) ELSE ToString(data.total_pages[1])>>
    [] data.kind = "list" -> <<ListOf(data.of), "1">>
    [] OTHER -> <<ListOf(<<>>), "1">>

PageInit ==
  /\ SyncIdle
  /\ CompareIdle
  /\ BulkIdle
  /\ TransportIdle
  /\ AuthIdle
  /\ page \in [pc : {"call"}, data : Shapes, items : {Null}, page_count : {"-"}]
  /\ poll = <<>>
  /\ op = <<>>
  /\ calendar = <<>>
  /\ widgets = <<>>

\* a caller of lines 79, 370, 426 unpacks the pair
Extract ==
  /\ page.pc = "call"
  /\ page' = [page EXCEPT !.pc = "returned",
                           !.items = _extract_paginated(page.data)[1],
                           !.page_count = _extract_paginated(page.data)[2]]
  /\ UNCHANGED <<poll, op, calendar, widgets, sync, compare, bulk, transport, auth>>

PageNext == Extract

PageSpec == PageInit /\ [][PageNext]_vars

\* C35: None or a value that is neither dict nor list gives ([], '1'); a
\* list gives itself and '1'; a dict gives its results if present, else its
\* items, else [], with str(total_pages) or '1'; the items are always a list.
C35_ExtractTotal ==
  page.pc = "returned" =>
    LET data == page.data IN
    /\ data.kind \in {"none", "text"} => page.items = ListOf(<<>>) /\ page.page_count = "1"
    /\ data.kind = "list" => page.items = ListOf(data.of) /\ page.page_count = "1"
    /\ data.kind = "dict" =>
         /\ page.items = (IF data.results # Absent_key THEN data.results
                           ELSE IF data.items # Absent_key THEN data.items
                           ELSE ListOf(<<>>))
         /\ page.page_count = (IF data.total_pages = <<>> THEN "1"
                                ELSE IF data.total_pages[1] = 1 THEN "1" ELSE "3")
    /\ page.items.kind = "list"

\* ------------------------------------------------- the calendar week view

MaxDays == 2

\* the tokens the settings may hold when the calendar is opened
CalendarTokens == {"tokenA", "0", ""}

\* the dates of the days a fetch may hand back, in days from today, around the
\* window of the offset; <<>> is a day without a date
DayDates(offset) == {<<>>, <<offset - 2>>, <<offset - 1>>, <<offset + 5>>, <<offset + 6>>}

CalendarDays(offset) ==
  UNION {[1..n -> [date : DayDates(offset), eps : 0..1]] : n \in 0..MaxDays}

\* line 142: the days of the window, from offset - 1 to offset + 5
InWindow(day, offset) ==
  /\ day.date # <<>>
  /\ offset - 1 <= day.date[1]
  /\ day.date[1] <= offset + 5

\* line 146, with the test turned to >=
PrevOffered_ge(offset) == offset >= -84

\* line 146
PrevOffered(offset) == offset > -84

\* line 183
NextOffered(offset) == offset < 28

\* lines 153-174: an entry for every day of the window that has episodes
DayEntries(days, offset) ==
  LET shown(day) == InWindow(day, offset) /\ day.eps > 0
      kept == SelectSeq(days, shown)
  IN [i \in 1..Len(kept) |-> [kind |-> "day", at |-> kept[i].date[1]]]

\* lines 144-188: the entries of the week view
WeekItems(days, offset) ==
  (IF PrevOffered(offset) THEN <<[kind |-> "prev", at |-> offset - 7]>> ELSE <<>>)
    \o DayEntries(days, offset)
    \o (IF DayEntries(days, offset) = <<>> THEN <<[kind |-> "empty", at |-> 0]>> ELSE <<>>)
    \o (IF NextOffered(offset) THEN <<[kind |-> "next", at |-> offset + 7]>> ELSE <<>>)

CalendarInit ==
  /\ SyncIdle
  /\ CompareIdle
  /\ BulkIdle
  /\ TransportIdle
  /\ AuthIdle
  /\ page = <<>>
  /\ poll = <<>>
  /\ op = <<>>
  /\ calendar = [pc |-> "request", offset |-> 0, view |-> "-", items |-> <<>>]
  /\ widgets = <<>>

CalendarFrame == <<page, poll, op, widgets, sync, compare, bulk, transport, auth>>

\* build_calendar_days, lines 101-196, for the offset of the request: the
\* stored token, whether _fetch_calendar handed back days (else None), the days
build_calendar_days(token, loaded, days) ==
  /\ calendar.pc = "request"
  /\ calendar' =
       IF ~_is_authenticated([token |-> token])
         THEN [calendar EXCEPT !.pc = "shown", !.view = "login", !.items = <<>>]
       ELSE IF ~loaded
         THEN [calendar EXCEPT !.pc = "shown", !.view = "error", !.items = <<>>]
       ELSE [calendar EXCEPT !.pc = "shown", !.view = "week",
                             !.items = WeekItems(days, calendar.offset)]
  /\ UNCHANGED CalendarFrame

\* the user follows the Previous Week or Next Week entry i of the view: its
\* url carries the offset that int(params.get('offset', 0)) reads back
FollowLink(i) ==
  /\ calendar.pc = "shown"
  /\ calendar.items[i].kind \in {"prev", "next"}
  /\ calendar' = [pc |-> "request", offset |-> calendar.items[i].at, view |-> "-", items |-> <<>>]
  /\ UNCHANGED CalendarFrame

\* the calendar is opened anew from the menu, without an offset (line 110)
OpenCalendar ==
  /\ calendar.pc = "shown"
  /\ calendar' = [pc |-> "request", offset |-> 0, view |-> "-", items |-> <<>>]
  /\ UNCHANGED CalendarFrame

CalendarNext ==
  \/ \E token \in CalendarTokens, loaded \in BOOLEAN, days \in CalendarDays(calendar.offset) :
       build_calendar_days(token, loaded, days)
  \/ \E i \in 1..Len(calendar.items) : FollowLink(i)
  \/ OpenCalendar

CalendarSpec == CalendarInit /\ [][CalendarNext]_vars

Links(kind) == {i \in 1..Len(calendar.items) : calendar.items[i].kind = kind}

\* C36: from offset 0, following the Previous Week / Next Week links only, the
\* offset stays a multiple of 7 within [-84, 28]; a week view offers Previous
\* Week, to offset - 7, iff offset > -84 and Next Week, to offset + 7, iff
\* offset < 28.
C36_OffsetWindow ==
  /\ calendar.offset % 7 = 0
  /\ calendar.offset >= -84
  /\ calendar.offset <= 28
  /\ calendar.view = "week" =>
       /\ Links("prev") # {} <=> calendar.offset > -84
       /\ Links("next") # {} <=> calendar.offset < 28
       /\ \A i \in Links("prev") : calendar.items[i].at = calendar.offset - 7
       /\ \A i \in Links("next") : calendar.items[i].at = calendar.offset + 7

\* the week view of the earliest week: no Previous Week, Next Week to -77
C36_Witness ==
  /\ calendar.view = "week"
  /\ calendar.offset = -84
  /\ Links("prev") = {}
  /\ Links("next") # {}

\* ------------------------------------------- the random widgets database

MaxRows == 2

MaxExpiry == 3

\* the expires column of a row: an integer, the text of an integer, or NULL
Expiries == [kind : {"int", "text"}, n : 0..MaxExpiry] \cup {[kind |-> "null", n |-> 0]}

\* the rows of the data table
WidgetRows == UNION {[1..n -> Expiries] : n \in 0..MaxRows}

\* get_timestamp(): the moments of the clean
Timestamps == 1..(MaxExpiry - 1)

\* where the statements of lines 9-11 may raise
Failures == {"none", "connect", "delete", "vacuum"}

\* line 10, with the test turned to <
Expired_lt(expires, timestamp) == expires.kind # "null" /\ expires.n < timestamp

\* line 10: CAST(expires AS INT) <= ?, which a NULL never satisfies
Expired(expires, timestamp) == expires.kind # "null" /\ expires.n <= timestamp

\* line 10: the table after the DELETE
Deleted(rows, timestamp) ==
  LET kept(expires) == ~Expired(expires, timestamp)
  IN SelectSeq(rows, kept)

CleanInit ==
  /\ SyncIdle
  /\ CompareIdle
  /\ BulkIdle
  /\ TransportIdle
  /\ AuthIdle
  /\ page = <<>>
  /\ poll = <<>>
  /\ op = <<>>
  /\ calendar = <<>>
  /\ widgets \in {[pc |-> "call", before |-> b, rows |-> b, timestamp |-> t,
                    failure |-> "none", result |-> "-", raised |-> FALSE] :
                     b \in WidgetRows, t \in Timestamps}

\* RandomWidgets.clean_database, lines 7-13, over a connection that commits
\* each statement: the statement that raises, if any, ends the try
clean_database(failure) ==
  /\ widgets.pc = "call"
  /\ widgets' = [widgets EXCEPT
                    !.pc = "returned",
                    !.failure = failure,
                    !.rows = IF failure \in {"connect", "delete"} THEN widgets.rows
                             ELSE Deleted(widgets.rows, widgets.timestamp),
                    !.result = IF failure = "none" THEN "True" ELSE "False",
                    !.raised = FALSE]
  /\ UNCHANGED <<page, poll, op, calendar, sync, compare, bulk, transport, auth>>

CleanNext == \E failure \in Failures : clean_database(failure)

CleanSpec == CleanInit /\ [][CleanNext]_vars

\* the rows of the table before the clean whose expiry is later than the
\* timestamp, or that have none
Unexpired ==
  LET later(expires) == expires.kind = "null" \/ expires.n > widgets.timestamp
  IN SelectSeq(widgets.before, later)

\* C37: a clean without failure leaves exactly the rows whose expiry is later
\* than the timestamp, as they were, and returns True; a clean in which a
\* statement fails returns False; nothing is raised.
C37_CleanDatabase ==
  widgets.pc = "returned" =>
    /\ widgets.failure = "none" => widgets.result = "True" /\ widgets.rows = Unexpired
    /\ widgets.failure # "none" => widgets.result = "False"
    /\ ~widgets.raised

\* a clean that deleted a row expiring at the very timestamp and kept another
C37_Witness ==
  /\ widgets.pc = "returned"
  /\ widgets.result = "True"
  /\ \E i \in 1..Len(widgets.before) :
       widgets.before[i] = [kind |-> "int", n |-> widgets.timestamp]
  /\ widgets.rows # <<>>
  /\ Len(widgets.rows) < Len(widgets.before)

====
